---- MODULE Spec2Model ----
(***************************************************************************)
(* A model of the Wade-Giles to Pinyin transliteration engine of           *)
(* wg_to_pinyin.py: the merged syllable table, the normalizers, the case   *)
(* transfer, the compiled matcher, the hyphenated-sequence joiner and      *)
(* convert_text.                                                           *)
(*                                                                         *)
(* A Python str is modelled as a sequence of characters; a character is a  *)
(* one-character string, except for the non-ASCII code points, which are   *)
(* written "u:" (U+00FC), "U:" (U+00DC), "acute" (U+00B4), "U+02BC" and    *)
(* "U+02BB"; the grave accent (U+0060) is written "grave"; a vowel with a   *)
(* circumflex, breve or macron is written "e-circumflex", "E-breve", ...   *)
(***************************************************************************)
EXTENDS Integers, Sequences, FiniteSets, TLC

\* ------------------------------------------------------------------------
\* Characters and the str methods the engine uses
\* ------------------------------------------------------------------------

\* The lowercase ASCII letters.
AsciiLower ==
  <<"a", "b", "c", "d", "e", "f", "g", "h", "i", "j", "k", "l", "m",
    "n", "o", "p", "q", "r", "s", "t", "u", "v", "w", "x", "y", "z">>

\* Their uppercase counterparts, position by position.
AsciiUpper ==
  <<"A", "B", "C", "D", "E", "F", "G", "H", "I", "J", "K", "L", "M",
    "N", "O", "P", "Q", "R", "S", "T", "U", "V", "W", "X", "Y", "Z">>

\* The lowercase vowels with a circumflex, a breve or a macron, written as
\* the base letter followed by the name of the mark.
AccentedLower ==
  <<"a-circumflex", "e-circumflex", "i-circumflex", "o-circumflex", "u-circumflex",
    "a-breve", "e-breve", "i-breve", "o-breve", "u-breve",
    "a-macron", "e-macron", "i-macron", "o-macron", "u-macron">>

\* Their uppercase counterparts, position by position.
AccentedUpper ==
  <<"A-circumflex", "E-circumflex", "I-circumflex", "O-circumflex", "U-circumflex",
    "A-breve", "E-breve", "I-breve", "O-breve", "U-breve",
    "A-macron", "E-macron", "I-macron", "O-macron", "U-macron">>

\* The lowercase cased letters of the model's alphabet: a-z, u-umlaut and
\* the accented vowels.
LowerLetters == AsciiLower \o <<"u:">> \o AccentedLower

\* Their uppercase counterparts, position by position.
UpperLetters == AsciiUpper \o <<"U:">> \o AccentedUpper

LowerSet == {LowerLetters[i] : i \in 1..Len(LowerLetters)}

UpperSet == {UpperLetters[i] : i \in 1..Len(UpperLetters)}

\* The ASCII letters: the class [a-zA-Z] of the matcher's lookarounds.
AsciiLetters ==
  {AsciiLower[i] : i \in 1..Len(AsciiLower)} \cup {AsciiUpper[i] : i \in 1..Len(AsciiUpper)}

\* The apostrophe-like glyphs other than the ASCII apostrophe.
ApostropheVariants == {"grave", "acute", "U+02BC", "U+02BB"}

\* Every character an input text of the model may contain.
Chars ==
  LowerSet \cup UpperSet \cup ApostropheVariants \cup {"'", "-", " ", ",", "."}

\* str.lower() of one character.
char_lower ==
  [c \in Chars |->
     IF c \in UpperSet
       THEN LowerLetters[CHOOSE i \in 1..Len(UpperLetters) : UpperLetters[i] = c]
       ELSE c]

\* str.upper() of one character.
char_upper ==
  [c \in Chars |->
     IF c \in LowerSet
       THEN UpperLetters[CHOOSE i \in 1..Len(LowerLetters) : LowerLetters[i] = c]
       ELSE c]

\* str.isupper() of a one-character string.
char_isupper(c) == c \in UpperSet

\* str.lower()
str_lower(s) == [i \in 1..Len(s) |-> char_lower[s[i]]]

\* str.upper()
str_upper(s) == [i \in 1..Len(s) |-> char_upper[s[i]]]

\* str.islower(): at least one cased character and no uppercase one.
str_islower(s) ==
  /\ \E i \in 1..Len(s) : s[i] \in LowerSet
  /\ \A i \in 1..Len(s) : s[i] \notin UpperSet

\* \w of the re module on str patterns: alphanumerics and the underscore.
\* U+02BC and U+02BB are modifier letters (category Lm), hence alphanumeric.
IsWordChar(c) == c \in LowerSet \cup UpperSet \cup {"U+02BC", "U+02BB"}

\* ------------------------------------------------------------------------
\* The syllable tables
\* ------------------------------------------------------------------------

\* The core conversion dictionary literal (lines 40-486), in insertion order.
WG_TO_PINYIN_CORE ==
  <<
    <<<<"a">>, <<"a">>>>,
    <<<<"a", "i">>, <<"a", "i">>>>,
    <<<<"a", "n">>, <<"a", "n">>>>,
    <<<<"a", "n", "g">>, <<"a", "n", "g">>>>,
    <<<<"a", "o">>, <<"a", "o">>>>,
    <<<<"c", "h", "a">>, <<"z", "h", "a">>>>,
    <<<<"c", "h", "a", "i">>, <<"z", "h", "a", "i">>>>,
    <<<<"c", "h", "a", "n">>, <<"z", "h", "a", "n">>>>,
    <<<<"c", "h", "a", "n", "g">>, <<"z", "h", "a", "n", "g">>>>,
    <<<<"c", "h", "a", "o">>, <<"z", "h", "a", "o">>>>,
    <<<<"c", "h", "e">>, <<"z", "h", "e">>>>,
    <<<<"c", "h", "e", "n">>, <<"z", "h", "e", "n">>>>,
    <<<<"c", "h", "e", "n", "g">>, <<"z", "h", "e", "n", "g">>>>,
    <<<<"c", "h", "i">>, <<"j", "i">>>>,
    <<<<"c", "h", "i", "a">>, <<"j", "i", "a">>>>,
    <<<<"c", "h", "i", "a", "n", "g">>, <<"j", "i", "a", "n", "g">>>>,
    <<<<"c", "h", "i", "a", "o">>, <<"j", "i", "a", "o">>>>,
    <<<<"c", "h", "i", "e", "h">>, <<"j", "i", "e">>>>,
    <<<<"c", "h", "i", "e", "n">>, <<"j", "i", "a", "n">>>>,
    <<<<"c", "h", "i", "h">>, <<"z", "h", "i">>>>,
    <<<<"c", "h", "i", "n">>, <<"j", "i", "n">>>>,
    <<<<"c", "h", "i", "n", "g">>, <<"j", "i", "n", "g">>>>,
    <<<<"c", "h", "i", "u">>, <<"j", "i", "u">>>>,
    <<<<"c", "h", "i", "u", "n", "g">>, <<"j", "i", "o", "n", "g">>>>,
    <<<<"c", "h", "o">>, <<"z", "h", "u", "o">>>>,
    <<<<"c", "h", "o", "u">>, <<"z", "h", "o", "u">>>>,
    <<<<"c", "h", "u">>, <<"z", "h", "u">>>>,
    <<<<"c", "h", "u", "a">>, <<"z", "h", "u", "a">>>>,
    <<<<"c", "h", "u", "a", "i">>, <<"z", "h", "u", "a", "i">>>>,
    <<<<"c", "h", "u", "a", "n">>, <<"z", "h", "u", "a", "n">>>>,
    <<<<"c", "h", "u", "a", "n", "g">>, <<"z", "h", "u", "a", "n", "g">>>>,
    <<<<"c", "h", "u", "i">>, <<"z", "h", "u", "i">>>>,
    <<<<"c", "h", "u", "n">>, <<"z", "h", "u", "n">>>>,
    <<<<"c", "h", "u", "n", "g">>, <<"z", "h", "o", "n", "g">>>>,
    <<<<"c", "h", "u:">>, <<"j", "u">>>>,
    <<<<"c", "h", "u:", "a", "n">>, <<"j", "u", "a", "n">>>>,
    <<<<"c", "h", "u:", "e", "h">>, <<"j", "u", "e">>>>,
    <<<<"c", "h", "u:", "n">>, <<"j", "u", "n">>>>,
    <<<<"c", "h", "'", "a">>, <<"c", "h", "a">>>>,
    <<<<"c", "h", "'", "a", "i">>, <<"c", "h", "a", "i">>>>,
    <<<<"c", "h", "'", "a", "n">>, <<"c", "h", "a", "n">>>>,
    <<<<"c", "h", "'", "a", "n", "g">>, <<"c", "h", "a", "n", "g">>>>,
    <<<<"c", "h", "'", "a", "o">>, <<"c", "h", "a", "o">>>>,
    <<<<"c", "h", "'", "e">>, <<"c", "h", "e">>>>,
    <<<<"c", "h", "'", "e", "n">>, <<"c", "h", "e", "n">>>>,
    <<<<"c", "h", "'", "e", "n", "g">>, <<"c", "h", "e", "n", "g">>>>,
    <<<<"c", "h", "'", "i">>, <<"q", "i">>>>,
    <<<<"c", "h", "'", "i", "a">>, <<"q", "i", "a">>>>,
    <<<<"c", "h", "'", "i", "a", "n", "g">>, <<"q", "i", "a", "n", "g">>>>,
    <<<<"c", "h", "'", "i", "a", "o">>, <<"q", "i", "a", "o">>>>,
    <<<<"c", "h", "'", "i", "e", "h">>, <<"q", "i", "e">>>>,
    <<<<"c", "h", "'", "i", "e", "n">>, <<"q", "i", "a", "n">>>>,
    <<<<"c", "h", "'", "i", "h">>, <<"c", "h", "i">>>>,
    <<<<"c", "h", "'", "i", "n">>, <<"q", "i", "n">>>>,
    <<<<"c", "h", "'", "i", "n", "g">>, <<"q", "i", "n", "g">>>>,
    <<<<"c", "h", "'", "i", "u">>, <<"q", "i", "u">>>>,
    <<<<"c", "h", "'", "i", "u", "n", "g">>, <<"q", "i", "o", "n", "g">>>>,
    <<<<"c", "h", "'", "o">>, <<"c", "h", "u", "o">>>>,
    <<<<"c", "h", "'", "o", "u">>, <<"c", "h", "o", "u">>>>,
    <<<<"c", "h", "'", "u">>, <<"c", "h", "u">>>>,
    <<<<"c", "h", "'", "u", "a", "i">>, <<"c", "h", "u", "a", "i">>>>,
    <<<<"c", "h", "'", "u", "a", "n">>, <<"c", "h", "u", "a", "n">>>>,
    <<<<"c", "h", "'", "u", "a", "n", "g">>, <<"c", "h", "u", "a", "n", "g">>>>,
    <<<<"c", "h", "'", "u", "i">>, <<"c", "h", "u", "i">>>>,
    <<<<"c", "h", "'", "u", "n">>, <<"c", "h", "u", "n">>>>,
    <<<<"c", "h", "'", "u", "n", "g">>, <<"c", "h", "o", "n", "g">>>>,
    <<<<"c", "h", "'", "u:">>, <<"q", "u">>>>,
    <<<<"c", "h", "'", "u:", "a", "n">>, <<"q", "u", "a", "n">>>>,
    <<<<"c", "h", "'", "u:", "e", "h">>, <<"q", "u", "e">>>>,
    <<<<"c", "h", "'", "u:", "n">>, <<"q", "u", "n">>>>,
    <<<<"e", "n">>, <<"e", "n">>>>,
    <<<<"e", "r", "h">>, <<"e", "r">>>>,
    <<<<"e", "r">>, <<"e", "r">>>>,
    <<<<"f", "a">>, <<"f", "a">>>>,
    <<<<"f", "a", "n">>, <<"f", "a", "n">>>>,
    <<<<"f", "a", "n", "g">>, <<"f", "a", "n", "g">>>>,
    <<<<"f", "e", "i">>, <<"f", "e", "i">>>>,
    <<<<"f", "e", "n">>, <<"f", "e", "n">>>>,
    <<<<"f", "e", "n", "g">>, <<"f", "e", "n", "g">>>>,
    <<<<"f", "o">>, <<"f", "o">>>>,
    <<<<"f", "o", "u">>, <<"f", "o", "u">>>>,
    <<<<"f", "u">>, <<"f", "u">>>>,
    <<<<"h", "a">>, <<"h", "a">>>>,
    <<<<"h", "a", "i">>, <<"h", "a", "i">>>>,
    <<<<"h", "a", "n">>, <<"h", "a", "n">>>>,
    <<<<"h", "a", "n", "g">>, <<"h", "a", "n", "g">>>>,
    <<<<"h", "a", "o">>, <<"h", "a", "o">>>>,
    <<<<"h", "e", "i">>, <<"h", "e", "i">>>>,
    <<<<"h", "e", "n">>, <<"h", "e", "n">>>>,
    <<<<"h", "e", "n", "g">>, <<"h", "e", "n", "g">>>>,
    <<<<"h", "o">>, <<"h", "e">>>>,
    <<<<"h", "o", "u">>, <<"h", "o", "u">>>>,
    <<<<"h", "u">>, <<"h", "u">>>>,
    <<<<"h", "u", "a">>, <<"h", "u", "a">>>>,
    <<<<"h", "u", "a", "i">>, <<"h", "u", "a", "i">>>>,
    <<<<"h", "u", "a", "n">>, <<"h", "u", "a", "n">>>>,
    <<<<"h", "u", "a", "n", "g">>, <<"h", "u", "a", "n", "g">>>>,
    <<<<"h", "u", "i">>, <<"h", "u", "i">>>>,
    <<<<"h", "u", "n">>, <<"h", "u", "n">>>>,
    <<<<"h", "u", "n", "g">>, <<"h", "o", "n", "g">>>>,
    <<<<"h", "u", "o">>, <<"h", "u", "o">>>>,
    <<<<"h", "s", "i">>, <<"x", "i">>>>,
    <<<<"h", "s", "i", "a">>, <<"x", "i", "a">>>>,
    <<<<"h", "s", "i", "a", "n", "g">>, <<"x", "i", "a", "n", "g">>>>,
    <<<<"h", "s", "i", "a", "o">>, <<"x", "i", "a", "o">>>>,
    <<<<"h", "s", "i", "e", "h">>, <<"x", "i", "e">>>>,
    <<<<"h", "s", "i", "e", "n">>, <<"x", "i", "a", "n">>>>,
    <<<<"h", "s", "i", "n">>, <<"x", "i", "n">>>>,
    <<<<"h", "s", "i", "n", "g">>, <<"x", "i", "n", "g">>>>,
    <<<<"h", "s", "i", "u">>, <<"x", "i", "u">>>>,
    <<<<"h", "s", "i", "u", "n", "g">>, <<"x", "i", "o", "n", "g">>>>,
    <<<<"h", "s", "u:">>, <<"x", "u">>>>,
    <<<<"h", "s", "u:", "a", "n">>, <<"x", "u", "a", "n">>>>,
    <<<<"h", "s", "u:", "e", "h">>, <<"x", "u", "e">>>>,
    <<<<"h", "s", "u:", "n">>, <<"x", "u", "n">>>>,
    <<<<"i">>, <<"y", "i">>>>,
    <<<<"j", "a", "n">>, <<"r", "a", "n">>>>,
    <<<<"j", "a", "n", "g">>, <<"r", "a", "n", "g">>>>,
    <<<<"j", "a", "o">>, <<"r", "a", "o">>>>,
    <<<<"j", "e">>, <<"r", "e">>>>,
    <<<<"j", "e", "n">>, <<"r", "e", "n">>>>,
    <<<<"j", "e", "n", "g">>, <<"r", "e", "n", "g">>>>,
    <<<<"j", "i", "h">>, <<"r", "i">>>>,
    <<<<"j", "o">>, <<"r", "u", "o">>>>,
    <<<<"j", "o", "u">>, <<"r", "o", "u">>>>,
    <<<<"j", "u">>, <<"r", "u">>>>,
    <<<<"j", "u", "a", "n">>, <<"r", "u", "a", "n">>>>,
    <<<<"j", "u", "i">>, <<"r", "u", "i">>>>,
    <<<<"j", "u", "n">>, <<"r", "u", "n">>>>,
    <<<<"j", "u", "n", "g">>, <<"r", "o", "n", "g">>>>,
    <<<<"k", "a">>, <<"g", "a">>>>,
    <<<<"k", "a", "i">>, <<"g", "a", "i">>>>,
    <<<<"k", "a", "n">>, <<"g", "a", "n">>>>,
    <<<<"k", "a", "n", "g">>, <<"g", "a", "n", "g">>>>,
    <<<<"k", "a", "o">>, <<"g", "a", "o">>>>,
    <<<<"k", "e", "i">>, <<"g", "e", "i">>>>,
    <<<<"k", "e", "n">>, <<"g", "e", "n">>>>,
    <<<<"k", "e", "n", "g">>, <<"g", "e", "n", "g">>>>,
    <<<<"k", "o">>, <<"g", "e">>>>,
    <<<<"k", "o", "u">>, <<"g", "o", "u">>>>,
    <<<<"k", "u">>, <<"g", "u">>>>,
    <<<<"k", "u", "a">>, <<"g", "u", "a">>>>,
    <<<<"k", "u", "a", "i">>, <<"g", "u", "a", "i">>>>,
    <<<<"k", "u", "a", "n">>, <<"g", "u", "a", "n">>>>,
    <<<<"k", "u", "a", "n", "g">>, <<"g", "u", "a", "n", "g">>>>,
    <<<<"k", "u", "e", "i">>, <<"g", "u", "i">>>>,
    <<<<"k", "u", "n">>, <<"g", "u", "n">>>>,
    <<<<"k", "u", "n", "g">>, <<"g", "o", "n", "g">>>>,
    <<<<"k", "u", "o">>, <<"g", "u", "o">>>>,
    <<<<"k", "'", "a">>, <<"k", "a">>>>,
    <<<<"k", "'", "a", "i">>, <<"k", "a", "i">>>>,
    <<<<"k", "'", "a", "n">>, <<"k", "a", "n">>>>,
    <<<<"k", "'", "a", "n", "g">>, <<"k", "a", "n", "g">>>>,
    <<<<"k", "'", "a", "o">>, <<"k", "a", "o">>>>,
    <<<<"k", "'", "e", "n">>, <<"k", "e", "n">>>>,
    <<<<"k", "'", "e", "n", "g">>, <<"k", "e", "n", "g">>>>,
    <<<<"k", "'", "o">>, <<"k", "e">>>>,
    <<<<"k", "'", "o", "u">>, <<"k", "o", "u">>>>,
    <<<<"k", "'", "u">>, <<"k", "u">>>>,
    <<<<"k", "'", "u", "a">>, <<"k", "u", "a">>>>,
    <<<<"k", "'", "u", "a", "i">>, <<"k", "u", "a", "i">>>>,
    <<<<"k", "'", "u", "a", "n">>, <<"k", "u", "a", "n">>>>,
    <<<<"k", "'", "u", "a", "n", "g">>, <<"k", "u", "a", "n", "g">>>>,
    <<<<"k", "'", "u", "e", "i">>, <<"k", "u", "i">>>>,
    <<<<"k", "'", "u", "n">>, <<"k", "u", "n">>>>,
    <<<<"k", "'", "u", "n", "g">>, <<"k", "o", "n", "g">>>>,
    <<<<"k", "'", "u", "o">>, <<"k", "u", "o">>>>,
    <<<<"l", "a">>, <<"l", "a">>>>,
    <<<<"l", "a", "i">>, <<"l", "a", "i">>>>,
    <<<<"l", "a", "n">>, <<"l", "a", "n">>>>,
    <<<<"l", "a", "n", "g">>, <<"l", "a", "n", "g">>>>,
    <<<<"l", "a", "o">>, <<"l", "a", "o">>>>,
    <<<<"l", "e">>, <<"l", "e">>>>,
    <<<<"l", "e", "i">>, <<"l", "e", "i">>>>,
    <<<<"l", "e", "n", "g">>, <<"l", "e", "n", "g">>>>,
    <<<<"l", "i">>, <<"l", "i">>>>,
    <<<<"l", "i", "a", "n", "g">>, <<"l", "i", "a", "n", "g">>>>,
    <<<<"l", "i", "a", "o">>, <<"l", "i", "a", "o">>>>,
    <<<<"l", "i", "e", "h">>, <<"l", "i", "e">>>>,
    <<<<"l", "i", "e", "n">>, <<"l", "i", "a", "n">>>>,
    <<<<"l", "i", "n">>, <<"l", "i", "n">>>>,
    <<<<"l", "i", "n", "g">>, <<"l", "i", "n", "g">>>>,
    <<<<"l", "i", "u">>, <<"l", "i", "u">>>>,
    <<<<"l", "o">>, <<"l", "u", "o">>>>,
    <<<<"l", "o", "u">>, <<"l", "o", "u">>>>,
    <<<<"l", "u">>, <<"l", "u">>>>,
    <<<<"l", "u", "a", "n">>, <<"l", "u", "a", "n">>>>,
    <<<<"l", "u", "n">>, <<"l", "u", "n">>>>,
    <<<<"l", "u", "n", "g">>, <<"l", "o", "n", "g">>>>,
    <<<<"l", "u:">>, <<"l", "u:">>>>,
    <<<<"l", "u:", "a", "n">>, <<"l", "u", "a", "n">>>>,
    <<<<"l", "u:", "e", "h">>, <<"l", "u", "e">>>>,
    <<<<"m", "a">>, <<"m", "a">>>>,
    <<<<"m", "a", "i">>, <<"m", "a", "i">>>>,
    <<<<"m", "a", "n">>, <<"m", "a", "n">>>>,
    <<<<"m", "a", "n", "g">>, <<"m", "a", "n", "g">>>>,
    <<<<"m", "a", "o">>, <<"m", "a", "o">>>>,
    <<<<"m", "e", "i">>, <<"m", "e", "i">>>>,
    <<<<"m", "e", "n">>, <<"m", "e", "n">>>>,
    <<<<"m", "e", "n", "g">>, <<"m", "e", "n", "g">>>>,
    <<<<"m", "i">>, <<"m", "i">>>>,
    <<<<"m", "i", "a", "o">>, <<"m", "i", "a", "o">>>>,
    <<<<"m", "i", "e", "h">>, <<"m", "i", "e">>>>,
    <<<<"m", "i", "e", "n">>, <<"m", "i", "a", "n">>>>,
    <<<<"m", "i", "n">>, <<"m", "i", "n">>>>,
    <<<<"m", "i", "n", "g">>, <<"m", "i", "n", "g">>>>,
    <<<<"m", "i", "u">>, <<"m", "i", "u">>>>,
    <<<<"m", "o">>, <<"m", "o">>>>,
    <<<<"m", "o", "u">>, <<"m", "o", "u">>>>,
    <<<<"m", "u">>, <<"m", "u">>>>,
    <<<<"n", "a">>, <<"n", "a">>>>,
    <<<<"n", "a", "i">>, <<"n", "a", "i">>>>,
    <<<<"n", "a", "n">>, <<"n", "a", "n">>>>,
    <<<<"n", "a", "n", "g">>, <<"n", "a", "n", "g">>>>,
    <<<<"n", "a", "o">>, <<"n", "a", "o">>>>,
    <<<<"n", "e", "i">>, <<"n", "e", "i">>>>,
    <<<<"n", "e", "n">>, <<"n", "e", "n">>>>,
    <<<<"n", "e", "n", "g">>, <<"n", "e", "n", "g">>>>,
    <<<<"n", "i">>, <<"n", "i">>>>,
    <<<<"n", "i", "a", "n", "g">>, <<"n", "i", "a", "n", "g">>>>,
    <<<<"n", "i", "a", "o">>, <<"n", "i", "a", "o">>>>,
    <<<<"n", "i", "e", "h">>, <<"n", "i", "e">>>>,
    <<<<"n", "i", "e", "n">>, <<"n", "i", "a", "n">>>>,
    <<<<"n", "i", "n">>, <<"n", "i", "n">>>>,
    <<<<"n", "i", "n", "g">>, <<"n", "i", "n", "g">>>>,
    <<<<"n", "i", "u">>, <<"n", "i", "u">>>>,
    <<<<"n", "o">>, <<"n", "u", "o">>>>,
    <<<<"n", "u">>, <<"n", "u">>>>,
    <<<<"n", "u", "a", "n">>, <<"n", "u", "a", "n">>>>,
    <<<<"n", "u", "n", "g">>, <<"n", "o", "n", "g">>>>,
    <<<<"n", "u:">>, <<"n", "u:">>>>,
    <<<<"n", "u:", "e", "h">>, <<"n", "u", "e">>>>,
    <<<<"o">>, <<"e">>>>,
    <<<<"o", "u">>, <<"o", "u">>>>,
    <<<<"p", "a">>, <<"b", "a">>>>,
    <<<<"p", "a", "i">>, <<"b", "a", "i">>>>,
    <<<<"p", "a", "n">>, <<"b", "a", "n">>>>,
    <<<<"p", "a", "n", "g">>, <<"b", "a", "n", "g">>>>,
    <<<<"p", "a", "o">>, <<"b", "a", "o">>>>,
    <<<<"p", "e", "i">>, <<"b", "e", "i">>>>,
    <<<<"p", "e", "n">>, <<"b", "e", "n">>>>,
    <<<<"p", "e", "n", "g">>, <<"b", "e", "n", "g">>>>,
    <<<<"p", "i">>, <<"b", "i">>>>,
    <<<<"p", "i", "a", "o">>, <<"b", "i", "a", "o">>>>,
    <<<<"p", "i", "e", "h">>, <<"b", "i", "e">>>>,
    <<<<"p", "i", "e", "n">>, <<"b", "i", "a", "n">>>>,
    <<<<"p", "i", "n">>, <<"b", "i", "n">>>>,
    <<<<"p", "i", "n", "g">>, <<"b", "i", "n", "g">>>>,
    <<<<"p", "o">>, <<"b", "o">>>>,
    <<<<"p", "u">>, <<"b", "u">>>>,
    <<<<"p", "'", "a">>, <<"p", "a">>>>,
    <<<<"p", "'", "a", "i">>, <<"p", "a", "i">>>>,
    <<<<"p", "'", "a", "n">>, <<"p", "a", "n">>>>,
    <<<<"p", "'", "a", "n", "g">>, <<"p", "a", "n", "g">>>>,
    <<<<"p", "'", "a", "o">>, <<"p", "a", "o">>>>,
    <<<<"p", "'", "e", "i">>, <<"p", "e", "i">>>>,
    <<<<"p", "'", "e", "n">>, <<"p", "e", "n">>>>,
    <<<<"p", "'", "e", "n", "g">>, <<"p", "e", "n", "g">>>>,
    <<<<"p", "'", "i">>, <<"p", "i">>>>,
    <<<<"p", "'", "i", "a", "o">>, <<"p", "i", "a", "o">>>>,
    <<<<"p", "'", "i", "e", "h">>, <<"p", "i", "e">>>>,
    <<<<"p", "'", "i", "e", "n">>, <<"p", "i", "a", "n">>>>,
    <<<<"p", "'", "i", "n">>, <<"p", "i", "n">>>>,
    <<<<"p", "'", "i", "n", "g">>, <<"p", "i", "n", "g">>>>,
    <<<<"p", "'", "o">>, <<"p", "o">>>>,
    <<<<"p", "'", "o", "u">>, <<"p", "o", "u">>>>,
    <<<<"p", "'", "u">>, <<"p", "u">>>>,
    <<<<"s", "a">>, <<"s", "a">>>>,
    <<<<"s", "a", "i">>, <<"s", "a", "i">>>>,
    <<<<"s", "a", "n">>, <<"s", "a", "n">>>>,
    <<<<"s", "a", "n", "g">>, <<"s", "a", "n", "g">>>>,
    <<<<"s", "a", "o">>, <<"s", "a", "o">>>>,
    <<<<"s", "e">>, <<"s", "e">>>>,
    <<<<"s", "e", "n">>, <<"s", "e", "n">>>>,
    <<<<"s", "e", "n", "g">>, <<"s", "e", "n", "g">>>>,
    <<<<"s", "h", "a">>, <<"s", "h", "a">>>>,
    <<<<"s", "h", "a", "i">>, <<"s", "h", "a", "i">>>>,
    <<<<"s", "h", "a", "n">>, <<"s", "h", "a", "n">>>>,
    <<<<"s", "h", "a", "n", "g">>, <<"s", "h", "a", "n", "g">>>>,
    <<<<"s", "h", "a", "o">>, <<"s", "h", "a", "o">>>>,
    <<<<"s", "h", "e">>, <<"s", "h", "e">>>>,
    <<<<"s", "h", "e", "n">>, <<"s", "h", "e", "n">>>>,
    <<<<"s", "h", "e", "n", "g">>, <<"s", "h", "e", "n", "g">>>>,
    <<<<"s", "h", "i", "h">>, <<"s", "h", "i">>>>,
    <<<<"s", "h", "o", "u">>, <<"s", "h", "o", "u">>>>,
    <<<<"s", "h", "u">>, <<"s", "h", "u">>>>,
    <<<<"s", "h", "u", "a">>, <<"s", "h", "u", "a">>>>,
    <<<<"s", "h", "u", "a", "i">>, <<"s", "h", "u", "a", "i">>>>,
    <<<<"s", "h", "u", "a", "n">>, <<"s", "h", "u", "a", "n">>>>,
    <<<<"s", "h", "u", "a", "n", "g">>, <<"s", "h", "u", "a", "n", "g">>>>,
    <<<<"s", "h", "u", "i">>, <<"s", "h", "u", "i">>>>,
    <<<<"s", "h", "u", "n">>, <<"s", "h", "u", "n">>>>,
    <<<<"s", "h", "u", "o">>, <<"s", "h", "u", "o">>>>,
    <<<<"s", "o">>, <<"s", "u", "o">>>>,
    <<<<"s", "o", "u">>, <<"s", "o", "u">>>>,
    <<<<"s", "s", "u">>, <<"s", "i">>>>,
    <<<<"s", "u">>, <<"s", "u">>>>,
    <<<<"s", "u", "a", "n">>, <<"s", "u", "a", "n">>>>,
    <<<<"s", "u", "i">>, <<"s", "u", "i">>>>,
    <<<<"s", "u", "n">>, <<"s", "u", "n">>>>,
    <<<<"s", "u", "n", "g">>, <<"s", "o", "n", "g">>>>,
    <<<<"s", "z", "u">>, <<"s", "i">>>>,
    <<<<"t", "a">>, <<"d", "a">>>>,
    <<<<"t", "a", "i">>, <<"d", "a", "i">>>>,
    <<<<"t", "a", "n">>, <<"d", "a", "n">>>>,
    <<<<"t", "a", "n", "g">>, <<"d", "a", "n", "g">>>>,
    <<<<"t", "a", "o">>, <<"d", "a", "o">>>>,
    <<<<"t", "e">>, <<"d", "e">>>>,
    <<<<"t", "e", "n", "g">>, <<"d", "e", "n", "g">>>>,
    <<<<"t", "i">>, <<"d", "i">>>>,
    <<<<"t", "i", "a", "o">>, <<"d", "i", "a", "o">>>>,
    <<<<"t", "i", "e", "h">>, <<"d", "i", "e">>>>,
    <<<<"t", "i", "e", "n">>, <<"d", "i", "a", "n">>>>,
    <<<<"t", "i", "n", "g">>, <<"d", "i", "n", "g">>>>,
    <<<<"t", "i", "u">>, <<"d", "i", "u">>>>,
    <<<<"t", "o">>, <<"d", "u", "o">>>>,
    <<<<"t", "o", "u">>, <<"d", "o", "u">>>>,
    <<<<"t", "u">>, <<"d", "u">>>>,
    <<<<"t", "u", "a", "n">>, <<"d", "u", "a", "n">>>>,
    <<<<"t", "u", "i">>, <<"d", "u", "i">>>>,
    <<<<"t", "u", "n">>, <<"d", "u", "n">>>>,
    <<<<"t", "u", "n", "g">>, <<"d", "o", "n", "g">>>>,
    <<<<"t", "'", "a">>, <<"t", "a">>>>,
    <<<<"t", "'", "a", "i">>, <<"t", "a", "i">>>>,
    <<<<"t", "'", "a", "n">>, <<"t", "a", "n">>>>,
    <<<<"t", "'", "a", "n", "g">>, <<"t", "a", "n", "g">>>>,
    <<<<"t", "'", "a", "o">>, <<"t", "a", "o">>>>,
    <<<<"t", "'", "e">>, <<"t", "e">>>>,
    <<<<"t", "'", "e", "n", "g">>, <<"t", "e", "n", "g">>>>,
    <<<<"t", "'", "i">>, <<"t", "i">>>>,
    <<<<"t", "'", "i", "a", "o">>, <<"t", "i", "a", "o">>>>,
    <<<<"t", "'", "i", "e", "h">>, <<"t", "i", "e">>>>,
    <<<<"t", "'", "i", "e", "n">>, <<"t", "i", "a", "n">>>>,
    <<<<"t", "'", "i", "n", "g">>, <<"t", "i", "n", "g">>>>,
    <<<<"t", "'", "o">>, <<"t", "u", "o">>>>,
    <<<<"t", "'", "o", "u">>, <<"t", "o", "u">>>>,
    <<<<"t", "'", "u">>, <<"t", "u">>>>,
    <<<<"t", "'", "u", "a", "n">>, <<"t", "u", "a", "n">>>>,
    <<<<"t", "'", "u", "i">>, <<"t", "u", "i">>>>,
    <<<<"t", "'", "u", "n">>, <<"t", "u", "n">>>>,
    <<<<"t", "'", "u", "n", "g">>, <<"t", "o", "n", "g">>>>,
    <<<<"t", "s", "a">>, <<"z", "a">>>>,
    <<<<"t", "s", "a", "i">>, <<"z", "a", "i">>>>,
    <<<<"t", "s", "a", "n">>, <<"z", "a", "n">>>>,
    <<<<"t", "s", "a", "n", "g">>, <<"z", "a", "n", "g">>>>,
    <<<<"t", "s", "a", "o">>, <<"z", "a", "o">>>>,
    <<<<"t", "s", "e">>, <<"z", "e">>>>,
    <<<<"t", "s", "e", "i">>, <<"z", "e", "i">>>>,
    <<<<"t", "s", "e", "n">>, <<"z", "e", "n">>>>,
    <<<<"t", "s", "e", "n", "g">>, <<"z", "e", "n", "g">>>>,
    <<<<"t", "s", "o">>, <<"z", "u", "o">>>>,
    <<<<"t", "s", "o", "u">>, <<"z", "o", "u">>>>,
    <<<<"t", "s", "u">>, <<"z", "u">>>>,
    <<<<"t", "s", "u", "a", "n">>, <<"z", "u", "a", "n">>>>,
    <<<<"t", "s", "u", "i">>, <<"z", "u", "i">>>>,
    <<<<"t", "s", "u", "n">>, <<"z", "u", "n">>>>,
    <<<<"t", "s", "u", "n", "g">>, <<"z", "o", "n", "g">>>>,
    <<<<"t", "z", "u">>, <<"z", "i">>>>,
    <<<<"t", "s", "'", "a">>, <<"c", "a">>>>,
    <<<<"t", "s", "'", "a", "i">>, <<"c", "a", "i">>>>,
    <<<<"t", "s", "'", "a", "n">>, <<"c", "a", "n">>>>,
    <<<<"t", "s", "'", "a", "n", "g">>, <<"c", "a", "n", "g">>>>,
    <<<<"t", "s", "'", "a", "o">>, <<"c", "a", "o">>>>,
    <<<<"t", "s", "'", "e">>, <<"c", "e">>>>,
    <<<<"t", "s", "'", "e", "n">>, <<"c", "e", "n">>>>,
    <<<<"t", "s", "'", "e", "n", "g">>, <<"c", "e", "n", "g">>>>,
    <<<<"t", "s", "'", "o">>, <<"c", "u", "o">>>>,
    <<<<"t", "s", "'", "o", "u">>, <<"c", "o", "u">>>>,
    <<<<"t", "s", "'", "u">>, <<"c", "u">>>>,
    <<<<"t", "s", "'", "u", "a", "n">>, <<"c", "u", "a", "n">>>>,
    <<<<"t", "s", "'", "u", "i">>, <<"c", "u", "i">>>>,
    <<<<"t", "s", "'", "u", "n">>, <<"c", "u", "n">>>>,
    <<<<"t", "s", "'", "u", "n", "g">>, <<"c", "o", "n", "g">>>>,
    <<<<"t", "z", "'", "u">>, <<"c", "i">>>>,
    <<<<"w", "a">>, <<"w", "a">>>>,
    <<<<"w", "a", "i">>, <<"w", "a", "i">>>>,
    <<<<"w", "a", "n">>, <<"w", "a", "n">>>>,
    <<<<"w", "a", "n", "g">>, <<"w", "a", "n", "g">>>>,
    <<<<"w", "e", "i">>, <<"w", "e", "i">>>>,
    <<<<"w", "e", "n">>, <<"w", "e", "n">>>>,
    <<<<"w", "e", "n", "g">>, <<"w", "e", "n", "g">>>>,
    <<<<"w", "o">>, <<"w", "o">>>>,
    <<<<"w", "u">>, <<"w", "u">>>>,
    <<<<"y", "a">>, <<"y", "a">>>>,
    <<<<"y", "a", "i">>, <<"y", "a", "i">>>>,
    <<<<"y", "a", "n", "g">>, <<"y", "a", "n", "g">>>>,
    <<<<"y", "a", "o">>, <<"y", "a", "o">>>>,
    <<<<"y", "e", "h">>, <<"y", "e">>>>,
    <<<<"y", "e", "n">>, <<"y", "a", "n">>>>,
    <<<<"y", "i", "n">>, <<"y", "i", "n">>>>,
    <<<<"y", "i", "n", "g">>, <<"y", "i", "n", "g">>>>,
    <<<<"y", "o">>, <<"y", "o">>>>,
    <<<<"y", "u">>, <<"y", "o", "u">>>>,
    <<<<"y", "u", "n", "g">>, <<"y", "o", "n", "g">>>>,
    <<<<"y", "u:">>, <<"y", "u">>>>,
    <<<<"y", "u:", "a", "n">>, <<"y", "u", "a", "n">>>>,
    <<<<"y", "u:", "e", "h">>, <<"y", "u", "e">>>>,
    <<<<"y", "u:", "n">>, <<"y", "u", "n">>>>
  >>

\* Umlaut-elided variants (lines 493-516), in insertion order.
UMLAUT_VARIANTS ==
  <<
    <<<<"c", "h", "u">>, <<"j", "u">>>>,
    <<<<"h", "s", "u">>, <<"x", "u">>>>,
    <<<<"h", "s", "u", "a", "n">>, <<"x", "u", "a", "n">>>>,
    <<<<"h", "s", "u", "e", "h">>, <<"x", "u", "e">>>>,
    <<<<"h", "s", "u", "n">>, <<"x", "u", "n">>>>,
    <<<<"y", "u", "a", "n">>, <<"y", "u", "a", "n">>>>,
    <<<<"y", "u", "e", "h">>, <<"y", "u", "e">>>>,
    <<<<"y", "u", "n">>, <<"y", "u", "n">>>>,
    <<<<"l", "u">>, <<"l", "u">>>>,
    <<<<"l", "u", "e", "h">>, <<"l", "u", "e">>>>,
    <<<<"n", "u", "e", "h">>, <<"n", "u", "e">>>>
  >>

\* Postal romanizations and kw forms (lines 526-575), in insertion order.
POSTAL_ROMANIZATIONS ==
  <<
    <<<<"k", "w", "a", "n", "g", "s", "i">>, <<"g", "u", "a", "n", "g", "x", "i">>>>,
    <<<<"k", "w", "a", "n", "g", "t", "u", "n", "g">>, <<"g", "u", "a", "n", "g", "d", "o", "n", "g">>>>,
    <<<<"f", "u", "k", "i", "e", "n">>, <<"f", "u", "j", "i", "a", "n">>>>,
    <<<<"c", "h", "e", "k", "i", "a", "n", "g">>, <<"z", "h", "e", "j", "i", "a", "n", "g">>>>,
    <<<<"k", "i", "a", "n", "g", "s", "i">>, <<"j", "i", "a", "n", "g", "x", "i">>>>,
    <<<<"k", "i", "a", "n", "g", "s", "u">>, <<"j", "i", "a", "n", "g", "s", "u">>>>,
    <<<<"s", "h", "a", "n", "s", "i">>, <<"s", "h", "a", "n", "x", "i">>>>,
    <<<<"s", "h", "e", "n", "s", "i">>, <<"s", "h", "a", "a", "n", "x", "i">>>>,
    <<<<"s", "z", "e", "c", "h", "w", "a", "n">>, <<"s", "i", "c", "h", "u", "a", "n">>>>,
    <<<<"s", "z", "e", "c", "h", "u", "a", "n">>, <<"s", "i", "c", "h", "u", "a", "n">>>>,
    <<<<"h", "o", "p", "e", "i">>, <<"h", "e", "b", "e", "i">>>>,
    <<<<"h", "o", "p", "e", "h">>, <<"h", "e", "b", "e", "i">>>>,
    <<<<"h", "o", "n", "a", "n">>, <<"h", "e", "n", "a", "n">>>>,
    <<<<"h", "u", "p", "e", "i">>, <<"h", "u", "b", "e", "i">>>>,
    <<<<"h", "u", "p", "e", "h">>, <<"h", "u", "b", "e", "i">>>>,
    <<<<"h", "u", "n", "a", "n">>, <<"h", "u", "n", "a", "n">>>>,
    <<<<"k", "a", "n", "s", "u">>, <<"g", "a", "n", "s", "u">>>>,
    <<<<"k", "w", "e", "i", "c", "h", "o", "w">>, <<"g", "u", "i", "z", "h", "o", "u">>>>,
    <<<<"y", "u", "n", "n", "a", "n">>, <<"y", "u", "n", "n", "a", "n">>>>,
    <<<<"a", "n", "h", "w", "e", "i">>, <<"a", "n", "h", "u", "i">>>>,
    <<<<"c", "h", "i", "h", "l", "i">>, <<"z", "h", "i", "l", "i">>>>,
    <<<<"f", "e", "n", "g", "t", "i", "e", "n">>, <<"f", "e", "n", "g", "t", "i", "a", "n">>>>,
    <<<<"m", "a", "n", "c", "h", "u", "r", "i", "a">>, <<"m", "a", "n", "c", "h", "u", "r", "i", "a">>>>,
    <<<<"p", "e", "k", "i", "n", "g">>, <<"b", "e", "i", "j", "i", "n", "g">>>>,
    <<<<"p", "e", "i", "p", "i", "n", "g">>, <<"b", "e", "i", "p", "i", "n", "g">>>>,
    <<<<"n", "a", "n", "k", "i", "n", "g">>, <<"n", "a", "n", "j", "i", "n", "g">>>>,
    <<<<"c", "a", "n", "t", "o", "n">>, <<"g", "u", "a", "n", "g", "z", "h", "o", "u">>>>,
    <<<<"t", "i", "e", "n", "t", "s", "i", "n">>, <<"t", "i", "a", "n", "j", "i", "n">>>>,
    <<<<"t", "s", "i", "n", "g", "t", "a", "o">>, <<"q", "i", "n", "g", "d", "a", "o">>>>,
    <<<<"c", "h", "u", "n", "g", "k", "i", "n", "g">>, <<"c", "h", "o", "n", "g", "q", "i", "n", "g">>>>,
    <<<<"s", "i", "a", "n">>, <<"x", "i", "a", "n">>>>,
    <<<<"s", "i", "n", "k", "i", "a", "n", "g">>, <<"x", "i", "n", "j", "i", "a", "n", "g">>>>,
    <<<<"t", "s", "i", "n", "g", "h", "a", "i">>, <<"q", "i", "n", "g", "h", "a", "i">>>>,
    <<<<"n", "i", "n", "g", "s", "i", "a">>, <<"n", "i", "n", "g", "x", "i", "a">>>>,
    <<<<"s", "u", "i", "y", "u", "a", "n">>, <<"s", "u", "i", "y", "u", "a", "n">>>>,
    <<<<"y", "a", "n", "g", "t", "z", "e">>, <<"y", "a", "n", "g", "z", "i">>>>,
    <<<<"y", "a", "n", "g", "t", "s", "e">>, <<"y", "a", "n", "g", "z", "i">>>>,
    <<<<"k", "w", "a", "n", "g">>, <<"g", "u", "a", "n", "g">>>>,
    <<<<"k", "w", "a", "n">>, <<"g", "u", "a", "n">>>>,
    <<<<"k", "w", "a", "i">>, <<"g", "u", "a", "i">>>>,
    <<<<"k", "w", "e", "i">>, <<"g", "u", "i">>>>
  >>

\* ii-for-umlaut artifact variants (lines 585-618), in insertion order.
II_TO_UMLAUT_MAPPINGS ==
  <<
    <<<<"c", "h", "'", "i", "i">>, <<"q", "u">>>>,
    <<<<"c", "h", "'", "i", "i", "a", "n">>, <<"q", "u", "a", "n">>>>,
    <<<<"c", "h", "'", "i", "i", "e", "h">>, <<"q", "u", "e">>>>,
    <<<<"c", "h", "'", "i", "i", "n">>, <<"q", "u", "n">>>>,
    <<<<"c", "h", "i", "i">>, <<"j", "u">>>>,
    <<<<"c", "h", "i", "i", "a", "n">>, <<"j", "u", "a", "n">>>>,
    <<<<"c", "h", "i", "i", "e", "h">>, <<"j", "u", "e">>>>,
    <<<<"c", "h", "i", "i", "n">>, <<"j", "u", "n">>>>,
    <<<<"h", "s", "i", "i">>, <<"x", "u">>>>,
    <<<<"h", "s", "i", "i", "a", "n">>, <<"x", "u", "a", "n">>>>,
    <<<<"h", "s", "i", "i", "e", "h">>, <<"x", "u", "e">>>>,
    <<<<"h", "s", "i", "i", "n">>, <<"x", "u", "n">>>>,
    <<<<"l", "i", "i">>, <<"l", "u:">>>>,
    <<<<"l", "i", "i", "a", "n">>, <<"l", "u", "a", "n">>>>,
    <<<<"l", "i", "i", "e", "h">>, <<"l", "u", "e">>>>,
    <<<<"n", "i", "i">>, <<"n", "u:">>>>,
    <<<<"n", "i", "i", "e", "h">>, <<"n", "u", "e">>>>,
    <<<<"y", "i", "i">>, <<"y", "u">>>>,
    <<<<"y", "i", "i", "a", "n">>, <<"y", "u", "a", "n">>>>,
    <<<<"y", "i", "i", "e", "h">>, <<"y", "u", "e">>>>,
    <<<<"y", "i", "i", "n">>, <<"y", "u", "n">>>>
  >>

\* Variant of merge_if_absent that assigns d[k] = v also when k is present.
RECURSIVE merge_overwrite(_, _, _)
merge_overwrite(d, source, i) ==
  IF i > Len(source) THEN d
  ELSE IF \E j \in 1..Len(d) : d[j][1] = source[i][1]
    THEN merge_overwrite(
           [j \in 1..Len(d) |-> IF d[j][1] = source[i][1] THEN source[i] ELSE d[j]],
           source, i + 1)
    ELSE merge_overwrite(Append(d, source[i]), source, i + 1)

\* dict insert-if-absent loop: for k, v in source.items(): if k not in d: d[k] = v
\* A dict is modelled as the sequence of its items in insertion order.
RECURSIVE merge_if_absent(_, _, _)
merge_if_absent(d, source, i) ==
  IF i > Len(source) THEN d
  ELSE IF \E j \in 1..Len(d) : d[j][1] = source[i][1]
    THEN merge_if_absent(d, source, i + 1)
    ELSE merge_if_absent(Append(d, source[i]), source, i + 1)

\* The items of WG_TO_PINYIN once the module has been imported.
WG_ITEMS ==
  merge_if_absent(
    merge_if_absent(
      merge_if_absent(WG_TO_PINYIN_CORE, UMLAUT_VARIANTS, 1),
      POSTAL_ROMANIZATIONS, 1),
    II_TO_UMLAUT_MAPPINGS, 1)

\* list(d.keys()) of a dict given by its items.
dict_keys(items) == [i \in 1..Len(items) |-> items[i][1]]

\* The mapping of a dict given by its items.
dict_mapping(items) ==
  [k \in {items[i][1] : i \in 1..Len(items)} |->
     items[CHOOSE i \in 1..Len(items) : items[i][1] = k][2]]

\* The merged dictionary as a mapping.
WG_TO_PINYIN == dict_mapping(WG_ITEMS)

\* The keys of the merged dictionary.
WG_KEYS == DOMAIN WG_TO_PINYIN

ENGLISH_EXCLUSIONS_LOWERCASE ==
  { <<"t", "o">>, <<"n", "o">>, <<"s", "o">>,
    <<"h", "u", "n", "g">>, <<"s", "u", "n", "g">>, <<"l", "u", "n", "g">>,
    <<"t", "a", "n", "g">>, <<"t", "a", "n">>, <<"p", "a", "n">>,
    <<"p", "e", "n">>, <<"p", "i", "n">>, <<"p", "i", "n", "g">>,
    <<"t", "i", "n", "g">> }

ENGLISH_EXCLUSIONS_ANY_CASE == { <<"t", "o">>, <<"n", "o">>, <<"s", "o">> }

CONTEXT_SENSITIVE == { <<"i">>, <<"a">>, <<"o">> }

\* ------------------------------------------------------------------------
\* Case transfer and normalization
\* ------------------------------------------------------------------------

\* Variant of apply_case_loop that does not skip apostrophes and hyphens.
RECURSIVE apply_case_loop_no_skip(_, _, _, _, _)
apply_case_loop_no_skip(source, target, i, target_idx, result) ==
  IF i > Len(source) \/ target_idx > Len(target)
    THEN [result |-> result, target_idx |-> target_idx]
  ELSE IF char_isupper(source[i])
    THEN apply_case_loop_no_skip(source, target, i + 1, target_idx + 1,
                                 Append(result, char_upper[target[target_idx]]))
    ELSE apply_case_loop_no_skip(source, target, i + 1, target_idx + 1,
                                 Append(result, char_lower[target[target_idx]]))

\* The for loop of apply_case: returns the result built so far and target_idx.
RECURSIVE apply_case_loop(_, _, _, _, _)
apply_case_loop(source, target, i, target_idx, result) ==
  IF i > Len(source) \/ target_idx > Len(target)
    THEN [result |-> result, target_idx |-> target_idx]
  ELSE IF source[i] \in {"'", "-"}
    THEN apply_case_loop(source, target, i + 1, target_idx, result)
  ELSE IF char_isupper(source[i])
    THEN apply_case_loop(source, target, i + 1, target_idx + 1,
                         Append(result, char_upper[target[target_idx]]))
    ELSE apply_case_loop(source, target, i + 1, target_idx + 1,
                         Append(result, char_lower[target[target_idx]]))

\* Variant of apply_case that stops where the loop stops: the characters of
\* the target the source did not reach are not appended.
apply_case_no_remainder(source, target) ==
  IF source = <<>> \/ target = <<>> THEN target
  ELSE apply_case_loop(source, target, 1, 1, <<>>).result

\* apply_case(source, target); target_idx is 1-based here.
apply_case(source, target) ==
  IF source = <<>> \/ target = <<>> THEN target
  ELSE
    LET r == apply_case_loop(source, target, 1, 1, <<>>)
        rest == SubSeq(target, r.target_idx, Len(target))
    IN IF r.target_idx <= Len(target)
         THEN IF char_isupper(source[Len(source)])
                THEN r.result \o str_upper(rest)
                ELSE r.result \o str_lower(rest)
         ELSE r.result

\* str.replace(old, new) for a non-empty old.
RECURSIVE str_replace(_, _, _)
str_replace(s, old, new) ==
  IF Len(s) < Len(old) THEN s
  ELSE IF SubSeq(s, 1, Len(old)) = old
    THEN new \o str_replace(SubSeq(s, Len(old) + 1, Len(s)), old, new)
    ELSE <<s[1]>> \o str_replace(Tail(s), old, new)

\* The list `apostrophes` of normalize_apostrophe as the source file spells
\* it: its first two quote runs read as one triple-quoted string ', '.
apostrophes ==
  << <<",", " ">>, <<"grave">>, <<"acute">>, <<"U+02BC">>, <<"U+02BB">>,
     <<"U+02BC">>, <<"U+02BB">> >>

\* str.replace(old, new, 1): only the first occurrence is replaced.
RECURSIVE str_replace_first(_, _, _)
str_replace_first(s, old, new) ==
  IF Len(s) < Len(old) THEN s
  ELSE IF SubSeq(s, 1, Len(old)) = old
    THEN new \o SubSeq(s, Len(old) + 1, Len(s))
    ELSE <<s[1]>> \o str_replace_first(Tail(s), old, new)

\* Variant of normalize_apostrophe_loop that replaces only the first
\* occurrence of each glyph.
RECURSIVE normalize_apostrophe_loop_first(_, _)
normalize_apostrophe_loop_first(text, i) ==
  IF i > Len(apostrophes) THEN text
  ELSE normalize_apostrophe_loop_first(
         str_replace_first(text, apostrophes[i], <<"'">>), i + 1)

RECURSIVE normalize_apostrophe_loop(_, _)
normalize_apostrophe_loop(text, i) ==
  IF i > Len(apostrophes) THEN text
  ELSE normalize_apostrophe_loop(str_replace(text, apostrophes[i], <<"'">>), i + 1)

normalize_apostrophe(text) == normalize_apostrophe_loop(text, 1)

\* ------------------------------------------------------------------------
\* The compiled matcher (WadeGilesToPinyinConverter._compile_pattern)
\* ------------------------------------------------------------------------

\* list(WG_TO_PINYIN.keys()), in insertion order.
WG_KEY_LIST == dict_keys(WG_ITEMS)

\* The length of the longest key of a list.
longest(keys) ==
  CHOOSE n \in {Len(keys[i]) : i \in 1..Len(keys)} :
    \A i \in 1..Len(keys) : Len(keys[i]) <= n

\* The keys of length n down to 1, longest first, each length in list order.
RECURSIVE by_len_reverse(_, _)
by_len_reverse(keys, n) ==
  IF n = 0 THEN <<>>
  ELSE SelectSeq(keys, LAMBDA k : Len(k) = n) \o by_len_reverse(keys, n - 1)

\* The keys of length n up to m, shortest first.
RECURSIVE by_len(_, _, _)
by_len(keys, n, m) ==
  IF n > m THEN <<>>
  ELSE SelectSeq(keys, LAMBDA k : Len(k) = n) \o by_len(keys, n + 1, m)

\* Variant of sorted_by_len_reverse without reverse=True: shortest keys first.
sorted_by_len(keys) == by_len(keys, 1, longest(keys))

\* sorted(keys, key=len, reverse=True): a stable sort, longest keys first.
sorted_by_len_reverse(keys) == by_len_reverse(keys, longest(keys))

all_syllables == sorted_by_len_reverse(WG_KEY_LIST)

\* The character class the pattern puts at an apostrophe position.
ApostropheClass == {"'", "grave", "acute", "U+02BC", "U+02BB"}

\* The alternative compiled for one key: a sequence of character classes.
\* Under re.IGNORECASE a class is matched against the lowercased character.
syllable_pattern(syl) ==
  IF \E i \in 1..Len(syl) : syl[i] = "'"
    THEN [i \in 1..Len(syl) |-> IF syl[i] = "'" THEN ApostropheClass ELSE {syl[i]}]
  ELSE IF \E i \in 1..Len(syl) : syl[i] = "u:"
    THEN [i \in 1..Len(syl) |-> IF syl[i] = "u:" THEN {"u:", "u"} ELSE {syl[i]}]
    ELSE [i \in 1..Len(syl) |-> {syl[i]}]

\* The alternatives of the syllables, in their order.
compile_alternatives(syllables) ==
  [j \in 1..Len(syllables) |-> syllable_pattern(syllables[j])]

\* self.pattern: the alternation the converter holds after __init__.
patterns == compile_alternatives(all_syllables)

\* (?<![a-zA-Z]) at position pos (1-based index of the next character).
lookbehind_ok(text, pos) == pos = 1 \/ text[pos - 1] \notin AsciiLetters

\* (?![a-zA-Z]) at position pos.
lookahead_ok(text, pos) == pos > Len(text) \/ text[pos] \notin AsciiLetters

\* The alternative pat matches at pos and the trailing lookahead succeeds.
alternative_matches(pat, text, pos) ==
  /\ pos + Len(pat) - 1 <= Len(text)
  /\ \A i \in 1..Len(pat) : char_lower[text[pos + i - 1]] \in pat[i]
  /\ lookahead_ok(text, pos + Len(pat))

\* The alternation is ordered: the first alternative that succeeds wins.
first_alternative(J) == CHOOSE j \in J : \A k \in J : j <= k

\* The length of the first of the alternatives J of pattern, 0 if J is empty.
match_length(pattern, J) ==
  IF J = {} THEN 0 ELSE Len(pattern[first_alternative(J)])

\* Length of the match of pattern at pos, 0 if there is none.
pattern_match(pattern, text, pos) ==
  IF ~lookbehind_ok(text, pos) THEN 0
  ELSE match_length(pattern,
         {j \in 1..Len(pattern) : alternative_matches(pattern[j], text, pos)})

\* The non-overlapping matches pattern.sub visits, scanning from pos.
RECURSIVE pattern_finditer(_, _, _)
pattern_finditer(pattern, text, pos) ==
  IF pos > Len(text) THEN <<>>
  ELSE LET n == pattern_match(pattern, text, pos)
       IN IF n > 0
            THEN <<[start |-> pos, len |-> n]>>
                   \o pattern_finditer(pattern, text, pos + n)
            ELSE pattern_finditer(pattern, text, pos + 1)

\* re.sub: the text with every match replaced by its replacement.
RECURSIVE re_sub(_, _, _, _, _)
re_sub(text, matches, repls, k, pos) ==
  IF k > Len(matches) THEN SubSeq(text, pos, Len(text))
  ELSE SubSeq(text, pos, matches[k].start - 1) \o repls[k]
         \o re_sub(text, matches, repls, k + 1, matches[k].start + matches[k].len)

\* match.group(1) of match m.
group(text, m) == SubSeq(text, m.start, m.start + m.len - 1)

\* The result of a sub call and the record of the matches it replaced.
replace_matches(text, matches, repls) ==
  [text |-> re_sub(text, matches, repls, 1, 1),
   log |-> [k \in 1..Len(matches) |->
              [original |-> group(text, matches[k]), replacement |-> repls[k],
               start |-> matches[k].start]]]

\* ------------------------------------------------------------------------
\* The conversion primitives
\* ------------------------------------------------------------------------

\* The module globals the engine reads while it runs: WG_TO_PINYIN,
\* ENGLISH_EXCLUSIONS_LOWERCASE, ENGLISH_EXCLUSIONS_ANY_CASE and
\* CONTEXT_SENSITIVE, as the fields of one record. The definitions of those
\* names above are the values the globals have once the module is imported.
VARIABLE globals

\* Variant of normalized_form that drops the apostrophe instead of keeping
\* the canonical one.
normalized_form_strip(original) ==
  SelectSeq(normalize_apostrophe(str_lower(original)), LAMBDA ch : ch # "'")

\* normalize_apostrophe(original.lower()).replace(u-umlaut, u-umlaut): the
\* replace maps the character to itself.
normalized_form(original) == normalize_apostrophe(str_lower(original))

\* if normalized in WG_TO_PINYIN: return apply_case(original, pinyin)
\* return original
table_lookup(original, normalized, table) ==
  IF normalized \in DOMAIN table
    THEN apply_case(original, table[normalized])
    ELSE original

\* Variant of table_lookup that returns the table value without case
\* transfer.
table_lookup_raw(original, normalized, table) ==
  IF normalized \in DOMAIN table THEN table[normalized] ELSE original

\* Variant of _convert_single_syllable without the any-case exclusion test.
_convert_single_syllable_no_any_case(original, aggressive, in_hyphenated_sequence) ==
  LET normalized == normalized_form(original) IN
  IF /\ ~aggressive /\ ~in_hyphenated_sequence
     /\ normalized \in globals.ENGLISH_EXCLUSIONS_LOWERCASE /\ str_islower(original)
    THEN original
  ELSE IF ~aggressive /\ ~in_hyphenated_sequence /\ normalized \in globals.CONTEXT_SENSITIVE
    THEN original
  ELSE table_lookup(original, normalized, globals.WG_TO_PINYIN)

\* Variant of _convert_single_syllable whose lowercase exclusion ignores the
\* case of the span.
_convert_single_syllable_no_islower(original, aggressive, in_hyphenated_sequence) ==
  LET normalized == normalized_form(original) IN
  IF /\ ~aggressive /\ ~in_hyphenated_sequence
     /\ \/ normalized \in globals.ENGLISH_EXCLUSIONS_ANY_CASE
        \/ normalized \in globals.ENGLISH_EXCLUSIONS_LOWERCASE
    THEN original
  ELSE IF ~aggressive /\ ~in_hyphenated_sequence /\ normalized \in globals.CONTEXT_SENSITIVE
    THEN original
  ELSE table_lookup(original, normalized, globals.WG_TO_PINYIN)

\* Variant of _convert_single_syllable without the context-sensitive test.
_convert_single_syllable_no_context(original, aggressive, in_hyphenated_sequence) ==
  LET normalized == normalized_form(original) IN
  IF /\ ~aggressive /\ ~in_hyphenated_sequence
     /\ \/ normalized \in globals.ENGLISH_EXCLUSIONS_ANY_CASE
        \/ (normalized \in globals.ENGLISH_EXCLUSIONS_LOWERCASE /\ str_islower(original))
    THEN original
  ELSE table_lookup(original, normalized, globals.WG_TO_PINYIN)

\* Variant of _convert_single_syllable that skips the case transfer for a
\* standalone span in aggressive mode.
_convert_single_syllable_raw_aggressive(original, aggressive, in_hyphenated_sequence) ==
  LET normalized == normalized_form(original) IN
  IF /\ ~aggressive /\ ~in_hyphenated_sequence
     /\ \/ normalized \in globals.ENGLISH_EXCLUSIONS_ANY_CASE
        \/ (normalized \in globals.ENGLISH_EXCLUSIONS_LOWERCASE /\ str_islower(original))
    THEN original
  ELSE IF ~aggressive /\ ~in_hyphenated_sequence /\ normalized \in globals.CONTEXT_SENSITIVE
    THEN original
  ELSE IF aggressive /\ ~in_hyphenated_sequence
    THEN table_lookup_raw(original, normalized, globals.WG_TO_PINYIN)
    ELSE table_lookup(original, normalized, globals.WG_TO_PINYIN)

_convert_single_syllable(original, aggressive, in_hyphenated_sequence) ==
  LET normalized == normalized_form(original) IN
  IF /\ ~aggressive /\ ~in_hyphenated_sequence
     /\ \/ normalized \in globals.ENGLISH_EXCLUSIONS_ANY_CASE
        \/ (normalized \in globals.ENGLISH_EXCLUSIONS_LOWERCASE /\ str_islower(original))
    THEN original
  ELSE IF ~aggressive /\ ~in_hyphenated_sequence /\ normalized \in globals.CONTEXT_SENSITIVE
    THEN original
  ELSE table_lookup(original, normalized, globals.WG_TO_PINYIN)

\* str.split(sep) for a one-character separator.
RECURSIVE str_split(_, _, _)
str_split(s, sep, cur) ==
  IF s = <<>> THEN <<cur>>
  ELSE IF s[1] = sep THEN <<cur>> \o str_split(Tail(s), sep, <<>>)
  ELSE str_split(Tail(s), sep, Append(cur, s[1]))

\* ''.join(parts)
RECURSIVE str_join(_)
str_join(parts) == IF parts = <<>> THEN <<>> ELSE Head(parts) \o str_join(Tail(parts))

\* Variant of convert_part that passes the caller's mode on and does not
\* mark the sub-part as part of a hyphenated sequence.
convert_part_mode(part, aggressive) == _convert_single_syllable(part, aggressive, FALSE)

\* The call the loop makes for a sub-part that is a table key: the mode of
\* the caller is not passed on, aggressive and in_hyphenated_sequence are
\* both given as True.
convert_part(part, aggressive) == _convert_single_syllable(part, TRUE, TRUE)

\* Variant of part_case that keeps the case of the later sub-parts.
part_case_keep(s, is_first_part) == s

\* First part: preserve case; subsequent parts: lowercase.
part_case(s, is_first_part) == IF is_first_part THEN s ELSE str_lower(s)

\* The loop body for a part that is a table key, converted being what
\* _convert_single_syllable returned for it.  st holds converted_parts,
\* all_are_wg_syllables, any_converted and is_first_part.
key_part(st, part, converted) ==
  [converted_parts |->
     Append(st.converted_parts, part_case(converted, st.is_first_part)),
   all_are_wg_syllables |-> st.all_are_wg_syllables,
   any_converted |-> st.any_converted \/ str_lower(converted) # str_lower(part),
   is_first_part |-> FALSE]

\* Variant of other_part that appends the part as it is in every position.
other_part_verbatim(st, part) ==
  [converted_parts |-> Append(st.converted_parts, part),
   all_are_wg_syllables |-> FALSE,
   any_converted |-> st.any_converted,
   is_first_part |-> FALSE]

\* The loop body for a part that is not a table key.
other_part(st, part) ==
  [converted_parts |-> Append(st.converted_parts, part_case(part, st.is_first_part)),
   all_are_wg_syllables |-> FALSE,
   any_converted |-> st.any_converted,
   is_first_part |-> FALSE]

\* The body of the for loop of _convert_hyphenated_sequence for a non-empty
\* part.
loop_body(st, part, aggressive) ==
  IF normalized_form(part) \in DOMAIN globals.WG_TO_PINYIN
    THEN key_part(st, part, convert_part(part, aggressive))
    ELSE other_part(st, part)

\* The for loop of _convert_hyphenated_sequence over parts[i..].
RECURSIVE hyphenated_loop(_, _, _, _)
hyphenated_loop(parts, aggressive, i, st) ==
  IF i > Len(parts) THEN st
  ELSE IF parts[i] = <<>> THEN hyphenated_loop(parts, aggressive, i + 1, st)
  ELSE hyphenated_loop(parts, aggressive, i + 1, loop_body(st, parts[i], aggressive))

\* Variant of join_decision that always joins the parts.
join_decision_always(sequence, st) == str_join(st.converted_parts)

\* Variant of join_decision that joins only when a spelling changed.
join_decision_any_only(sequence, st) ==
  IF st.any_converted THEN str_join(st.converted_parts) ELSE sequence

\* if any_converted or all_are_wg_syllables: return ''.join(converted_parts)
\* else: return sequence
join_decision(sequence, st) ==
  IF st.any_converted \/ st.all_are_wg_syllables
    THEN str_join(st.converted_parts)
    ELSE sequence

_convert_hyphenated_sequence(sequence, aggressive) ==
  join_decision(sequence,
    hyphenated_loop(str_split(sequence, "-", <<>>), aggressive, 1,
      [converted_parts |-> <<>>, all_are_wg_syllables |-> TRUE,
       any_converted |-> FALSE, is_first_part |-> TRUE]))

\* ------------------------------------------------------------------------
\* The two passes of convert_text
\* ------------------------------------------------------------------------

\* The class [a-zA-Z, u-umlaut, U-umlaut, apostrophe glyphs] of hyphen_pattern.
HyphenClass == AsciiLetters \cup {"u:", "U:"} \cup ApostropheClass

\* \b at position pos: exactly one of the two neighbours is a word character.
word_boundary(text, pos) ==
  (pos > 1 /\ IsWordChar(text[pos - 1])) # (pos <= Len(text) /\ IsWordChar(text[pos]))

\* text[pos..last] reads as  class+ ( - class+ )+ .
hyphen_form(text, pos, last) ==
  /\ text[pos] \in HyphenClass
  /\ text[last] \in HyphenClass
  /\ \A i \in pos..last : text[i] \in HyphenClass \cup {"-"}
  /\ \A i \in pos..(last - 1) : ~(text[i] = "-" /\ text[i + 1] = "-")
  /\ \E i \in pos..last : text[i] = "-"

\* Length of the match of hyphen_pattern at pos, 0 if there is none.  The
\* quantifiers are greedy, so the longest admissible end is found first.
hyphen_match(text, pos) ==
  IF ~word_boundary(text, pos) THEN 0
  ELSE LET E == {last \in (pos + 2)..Len(text) :
                   hyphen_form(text, pos, last) /\ word_boundary(text, last + 1)}
       IN IF E = {} THEN 0
          ELSE (CHOOSE last \in E : \A e \in E : e <= last) - pos + 1

\* The non-overlapping matches hyphen_pattern.sub visits, scanning from pos.
RECURSIVE hyphen_finditer(_, _)
hyphen_finditer(text, pos) ==
  IF pos > Len(text) THEN <<>>
  ELSE LET n == hyphen_match(text, pos)
       IN IF n > 0
            THEN <<[start |-> pos, len |-> n]>> \o hyphen_finditer(text, pos + n)
            ELSE hyphen_finditer(text, pos + 1)

\* hyphen_replacer applied to each of the matches.
hyphen_replacer(text, matches, aggressive) ==
  [k \in 1..Len(matches) |->
     _convert_hyphenated_sequence(group(text, matches[k]), aggressive)]

\* hyphen_pattern.sub(hyphen_replacer, text) on the given matches.
hyphen_sub(text, matches, aggressive) ==
  replace_matches(text, matches, hyphen_replacer(text, matches, aggressive))

\* hyphen_pattern.sub(hyphen_replacer, text), with the matches it replaced.
hyphen_pass(text, aggressive) ==
  hyphen_sub(text, hyphen_finditer(text, 1), aggressive)

\* replacer applied to each of the matches.
replacer(text, matches, aggressive) ==
  [k \in 1..Len(matches) |->
     _convert_single_syllable(group(text, matches[k]), aggressive, FALSE)]

\* self.pattern.sub(replacer, text) on the given matches.
pattern_sub(text, matches, aggressive) ==
  replace_matches(text, matches, replacer(text, matches, aggressive))

\* self.pattern.sub(replacer, text), with the matches it replaced.
single_pass(text, aggressive) ==
  pattern_sub(text, pattern_finditer(patterns, text, 1), aggressive)

\* convert_text(text, aggressive) as a function, both passes in sequence.
convert_text(text, aggressive) ==
  IF text = <<>> THEN text
  ELSE single_pass(hyphen_pass(text, aggressive).text, aggressive).text

\* ------------------------------------------------------------------------
\* Diacritics and the proper-noun test
\* ------------------------------------------------------------------------

\* diacritic_map of normalize_diacritics as the list of its items, in
\* insertion order. An accented character is written as its base letter
\* followed by the name of the mark: "E-circumflex" is U+00CA.
diacritic_map ==
  << <<"A-circumflex", "A">>, <<"E-circumflex", "E">>, <<"I-circumflex", "I">>,
     <<"O-circumflex", "O">>, <<"U-circumflex", "U">>, <<"a-circumflex", "a">>,
     <<"e-circumflex", "e">>, <<"i-circumflex", "i">>, <<"o-circumflex", "o">>,
     <<"u-circumflex", "u">>, <<"A-breve", "A">>, <<"E-breve", "E">>,
     <<"I-breve", "I">>, <<"O-breve", "O">>, <<"U-breve", "U">>,
     <<"a-breve", "a">>, <<"e-breve", "e">>, <<"i-breve", "i">>,
     <<"o-breve", "o">>, <<"u-breve", "u">>, <<"A-macron", "A">>,
     <<"E-macron", "E">>, <<"I-macron", "I">>, <<"O-macron", "O">>,
     <<"U-macron", "U">>, <<"a-macron", "a">>, <<"e-macron", "e">>,
     <<"i-macron", "i">>, <<"o-macron", "o">>, <<"u-macron", "u">> >>

\* The accented characters normalize_diacritics replaces.
AccentedChars == {diacritic_map[i][1] : i \in 1..Len(diacritic_map)}

\* for accented, base in diacritic_map.items(): text = text.replace(accented, base)
RECURSIVE normalize_diacritics_loop(_, _)
normalize_diacritics_loop(text, i) ==
  IF i > Len(diacritic_map) THEN text
  ELSE normalize_diacritics_loop(
         str_replace(text, <<diacritic_map[i][1]>>, <<diacritic_map[i][2]>>), i + 1)

normalize_diacritics(text) == normalize_diacritics_loop(text, 1)

\* str.isupper() of a one-character string that may carry a diacritic.
accented_isupper(c) ==
  \/ char_isupper(c)
  \/ \E i \in 1..Len(diacritic_map) :
       diacritic_map[i][1] = c /\ char_isupper(diacritic_map[i][2])

\* The keys of POSTAL_ROMANIZATIONS.
POSTAL_KEYS == {POSTAL_ROMANIZATIONS[i][1] : i \in 1..Len(POSTAL_ROMANIZATIONS)}

\* Variant of _is_likely_proper_noun without the sentence-start test.
_is_likely_proper_noun_no_sentence_test(word_clean, is_sentence_start) ==
  LET normalized == normalize_apostrophe(normalize_diacritics(word_clean)) IN
  IF ~accented_isupper(word_clean[1]) THEN FALSE
  ELSE IF \E i \in 1..Len(normalized) : normalized[i] \in {"'", "-"} THEN TRUE
  ELSE IF str_lower(normalized) \in POSTAL_KEYS THEN TRUE
  ELSE TRUE

\* Variant of _is_likely_proper_noun that tests the apostrophe and the
\* hyphen after the sentence-start test.
_is_likely_proper_noun_late_mark_test(word_clean, is_sentence_start) ==
  LET normalized == normalize_apostrophe(normalize_diacritics(word_clean)) IN
  IF ~accented_isupper(word_clean[1]) THEN FALSE
  ELSE IF str_lower(normalized) \in POSTAL_KEYS THEN TRUE
  ELSE IF is_sentence_start THEN Len(normalized) > 4
  ELSE TRUE

\* _is_likely_proper_noun(word_clean, word_lower, is_sentence_start,
\* wg_lookup) for a non-empty word_clean; word_lower and wg_lookup are not
\* used by the function.
_is_likely_proper_noun(word_clean, is_sentence_start) ==
  LET normalized == normalize_apostrophe(normalize_diacritics(word_clean)) IN
  IF ~accented_isupper(word_clean[1]) THEN FALSE
  ELSE IF \E i \in 1..Len(normalized) : normalized[i] \in {"'", "-"} THEN TRUE
  ELSE IF str_lower(normalized) \in POSTAL_KEYS THEN TRUE
  ELSE IF is_sentence_start THEN Len(normalized) > 4
  ELSE TRUE

\* The dict `hyphenated` of _build_pdf_lookup.
hyphenated ==
  ( <<"t", "s", "e", "-", "t", "u", "n", "g">> :> <<"z", "e", "d", "o", "n", "g">> )
  @@ ( <<"e", "n", "-", "l", "a", "i">> :> <<"e", "n", "l", "a", "i">> )
  @@ ( <<"h", "s", "i", "a", "o", "-", "p", "'", "i", "n", "g">>
         :> <<"x", "i", "a", "o", "p", "i", "n", "g">> )
  @@ ( <<"k", "a", "i", "-", "s", "h", "e", "k">> :> <<"j", "i", "e", "s", "h", "i">> )
  @@ ( <<"y", "a", "t", "-", "s", "e", "n">> :> <<"y", "i", "x", "i", "a", "n">> )
  @@ ( <<"c", "h", "u", "n", "g", "-", "s", "h", "a", "n">>
         :> <<"z", "h", "o", "n", "g", "s", "h", "a", "n">> )

\* The entries of WG_TO_PINYIN that _build_pdf_lookup skips: identical to
\* their Pinyin, excluded English words, and terms shorter than two.
pdf_skipped(g) ==
  { wg \in DOMAIN g.WG_TO_PINYIN :
      \/ wg = g.WG_TO_PINYIN[wg]
      \/ wg \in g.ENGLISH_EXCLUSIONS_LOWERCASE
      \/ wg \in g.ENGLISH_EXCLUSIONS_ANY_CASE
      \/ Len(wg) < 2 }

\* self._build_pdf_lookup(), reading the module globals g: lookup[wg.lower()]
\* = pinyin for the entries not skipped, then lookup.update(hyphenated).
\* In a @@ the left operand wins, as the later write does in update.
_build_pdf_lookup(g) ==
  hyphenated @@
    [wg \in {str_lower(k) : k \in DOMAIN g.WG_TO_PINYIN \ pdf_skipped(g)} |->
       g.WG_TO_PINYIN[wg]]

\* ------------------------------------------------------------------------
\* Inputs of the model
\* ------------------------------------------------------------------------

\* Largest number of sub-parts of a generated hyphen group.
MaxParts == 2

\* Largest length of the context put before and after a key.
MaxAffix == 1

\* Every way of writing the lowercase word w in upper and lower case.
RECURSIVE AllCasings(_)
AllCasings(w) ==
  IF w = <<>> THEN {<<>>}
  ELSE {<<c>> \o s : c \in {w[1], char_upper[w[1]]}, s \in AllCasings(Tail(w))}

\* The sub-parts hyphen groups are generated from: keys whose spelling
\* changes, excluded and context-sensitive keys, a key equal to its Pinyin
\* form, and words that are not keys (one of them with a key after an
\* apostrophe), in several capitalizations.
Parts ==
  { <<"T", "s", "e">>, <<"T", "S", "E">>,
    <<"t", "u", "n", "g">>, <<"T", "u", "n", "g">>, <<"T", "U", "N", "G">>,
    <<"t", "o">>, <<"s", "u", "n", "g">>, <<"I">>, <<"a">>, <<"a", "n">>,
    <<"w", "e", "l", "l">>, <<"W", "e", "l", "l">>, <<"x", "'", "t", "o">> }

\* The hyphen groups of n sub-parts.
RECURSIVE HyphenGroups(_)
HyphenGroups(n) ==
  IF n = 1 THEN Parts
  ELSE {g \o <<"-">> \o p : g \in HyphenGroups(n - 1), p \in Parts}

\* Words given as standalone input in every capitalization.
StandaloneWords ==
  ENGLISH_EXCLUSIONS_LOWERCASE \cup CONTEXT_SENSITIVE
    \cup { <<"t", "s", "e">>, <<"t", "u", "n", "g">> }

\* "to be or not to be" and "Sung Dynasty".
Sentences ==
  { <<"t", "o", " ", "b", "e", " ", "o", "r", " ", "n", "o", "t", " ",
      "t", "o", " ", "b", "e">>,
    <<"S", "u", "n", "g", " ", "D", "y", "n", "a", "s", "t", "y">> }

Inputs ==
  {<<>>} \cup Sentences
    \cup UNION {AllCasings(w) : w \in StandaloneWords}
    \cup UNION {HyphenGroups(n) : n \in 2..MaxParts}

\* The context characters put around a key: a non-ASCII letter, an ASCII
\* letter, an apostrophe and a space.
AffixChars == {"u:", "x", "'", " "}

Affixes == UNION {[1..n -> AffixChars] : n \in 0..MaxAffix}

\* The keys that are given with context.
AffixKeys ==
  { <<"t", "e">>, <<"t", "u", "n", "g">>, <<"c", "h", "i">>,
    <<"c", "h", "i", "a">>, <<"c", "h", "'", "i">>, <<"a", "n">> }

\* Every key as written in the table, and some keys in context.
KeyInputs ==
  {<<>>} \cup WG_KEYS \cup {p \o k \o s : p \in Affixes, k \in AffixKeys, s \in Affixes}

\* ------------------------------------------------------------------------
\* The state machine: two calls of convert_text on one converter
\* ------------------------------------------------------------------------

\* Call 1 is made in conservative mode, call 2 in aggressive mode.
Calls == {1, 2}

VARIABLES
  input,        \* the text both calls are given
  aggressive,   \* aggressive[c]: the aggressive argument of call c
  pc,           \* pc[c]: "start", "hyphen_done" or "done"
  text,         \* text[c]: the local variable text of call c
  hyphen_log,   \* hyphen_log[c]: the matches hyphen_replacer was called on
  single_log,   \* single_log[c]: the matches replacer was called on
  call,         \* the module-level function called directly, with its arguments
  returned,     \* the values the calls of that function have returned so far
  raised,       \* the exception that has left the called function, or "none"
  docx          \* the convert_docx call in progress, if there is one

vars ==
  <<globals, input, aggressive, pc, text, hyphen_log, single_log, call, returned,
    raised, docx>>

\* The module globals once the module has been imported (lines 40-666).
ImportedGlobals ==
  [ WG_TO_PINYIN |-> WG_TO_PINYIN,
    ENGLISH_EXCLUSIONS_LOWERCASE |-> ENGLISH_EXCLUSIONS_LOWERCASE,
    ENGLISH_EXCLUSIONS_ANY_CASE |-> ENGLISH_EXCLUSIONS_ANY_CASE,
    CONTEXT_SENSITIVE |-> CONTEXT_SENSITIVE ]

\* No module-level function is called directly.
NoCall == [fn |-> "none"]

\* No convert_docx call is made.
NoDocx == [pc |-> "none"]

InitWith(S) ==
  /\ globals = ImportedGlobals
  /\ call = NoCall
  /\ returned = <<>>
  /\ raised = "none"
  /\ docx = NoDocx
  /\ input \in S
  /\ aggressive = [c \in Calls |-> c = 2]
  /\ pc = [c \in Calls |-> "start"]
  /\ text = [c \in Calls |-> input]
  /\ hyphen_log = [c \in Calls |-> <<>>]
  /\ single_log = [c \in Calls |-> <<>>]

Init == InitWith(Inputs)

KeyInit == InitWith(KeyInputs)

\* if not text: return text
ReturnEmpty(c) ==
  /\ pc[c] = "start"
  /\ text[c] = <<>>
  /\ pc' = [pc EXCEPT ![c] = "done"]
  /\ UNCHANGED <<globals, input, aggressive, text, hyphen_log, single_log, call, returned, raised, docx>>

\* Variant of HyphenPass that keeps text in a place all calls share: what
\* it writes is the text of every call.
HyphenPass_shared_text(c) ==
  /\ pc[c] = "start"
  /\ text[c] # <<>>
  /\ LET r == hyphen_pass(text[c], aggressive[c]) IN
       /\ text' = [d \in Calls |-> r.text]
       /\ hyphen_log' = [hyphen_log EXCEPT ![c] = r.log]
  /\ pc' = [pc EXCEPT ![c] = "hyphen_done"]
  /\ UNCHANGED <<globals, input, aggressive, single_log, call, returned, raised, docx>>

\* text = hyphen_pattern.sub(hyphen_replacer, text)
HyphenPass(c) ==
  /\ pc[c] = "start"
  /\ text[c] # <<>>
  /\ LET r == hyphen_pass(text[c], aggressive[c]) IN
       /\ text' = [text EXCEPT ![c] = r.text]
       /\ hyphen_log' = [hyphen_log EXCEPT ![c] = r.log]
  /\ pc' = [pc EXCEPT ![c] = "hyphen_done"]
  /\ UNCHANGED <<globals, input, aggressive, single_log, call, returned, raised, docx>>

\* return self.pattern.sub(replacer, text)
SinglePass(c) ==
  /\ pc[c] = "hyphen_done"
  /\ LET r == single_pass(text[c], aggressive[c]) IN
       /\ text' = [text EXCEPT ![c] = r.text]
       /\ single_log' = [single_log EXCEPT ![c] = r.log]
  /\ pc' = [pc EXCEPT ![c] = "done"]
  /\ UNCHANGED <<globals, input, aggressive, hyphen_log, call, returned, raised, docx>>

Next == \E c \in Calls : ReturnEmpty(c) \/ HyphenPass(c) \/ SinglePass(c)

Spec == Init /\ [][Next]_vars

KeySpec == KeyInit /\ [][Next]_vars

\* ------------------------------------------------------------------------
\* Direct calls of the module-level functions
\* ------------------------------------------------------------------------

\* Largest length of a generated source argument of apply_case.
MaxSource == 4

\* The characters of a generated source: a lowercase letter, an uppercase
\* letter, the two characters apply_case skips, and an apostrophe variant.
SourceChars == {"c", "H", "'", "-", "U+02BC"}

CaseSources == UNION {[1..n -> SourceChars] : n \in 0..MaxSource}

\* Targets: the empty string, table values of length 2 to 4, a mixed-case one.
CaseTargets ==
  { <<>>, <<"y", "i">>, <<"d", "u", "o">>, <<"q", "i", "a", "n">>, <<"Q", "i">> }

\* The (source, target) pairs apply_case's documentation is illustrated with.
CaseExamples ==
  { << <<"C", "H", "'", "I", "E", "N">>, <<"q", "i", "a", "n">> >>,
    << <<"C", "h", "i", "e", "n">>, <<"j", "i", "a", "n">> >>,
    << <<"c", "h", "i", "e", "n">>, <<"j", "i", "a", "n">> >> }

ApplyCaseCalls ==
  {[fn |-> "apply_case", source |-> s, target |-> t] :
     s \in CaseSources, t \in CaseTargets}
    \cup {[fn |-> "apply_case", source |-> e[1], target |-> e[2]] : e \in CaseExamples}

\* The state in which one module-level function is about to be called and
\* no convert_text call is running.
CallInit(calls) ==
  /\ globals = ImportedGlobals
  /\ call \in calls
  /\ returned = <<>>
  /\ raised = "none"
  /\ docx = NoDocx
  /\ input = <<>>
  /\ aggressive = [c \in Calls |-> c = 2]
  /\ pc = [c \in Calls |-> "done"]
  /\ text = [c \in Calls |-> <<>>]
  /\ hyphen_log = [c \in Calls |-> <<>>]
  /\ single_log = [c \in Calls |-> <<>>]

\* apply_case(source, target)
ApplyCase ==
  /\ call.fn = "apply_case"
  /\ returned = <<>>
  /\ returned' = <<apply_case(call.source, call.target)>>
  /\ UNCHANGED <<globals, input, aggressive, pc, text, hyphen_log, single_log, call, raised, docx>>

\* Largest length of a generated argument of the normalizers.
MaxNorm == 3

\* The characters of a generated argument: a letter, the canonical
\* apostrophe, the four variant glyphs, a comma, a space and three accented
\* letters.
NormChars ==
  {"a", "'", "grave", "acute", "U+02BC", "U+02BB", ",", " ",
   "E-circumflex", "e-breve", "u-macron"}

NormTexts == UNION {[1..n -> NormChars] : n \in 0..MaxNorm}

NormalizeCalls ==
  {[fn |-> f, text |-> t] :
     f \in {"normalize_apostrophe", "normalize_diacritics"}, t \in NormTexts}

\* The argument of the next call of a normalizer: the given text, then the
\* value the call before returned.
next_argument == IF returned = <<>> THEN call.text ELSE returned[Len(returned)]

\* normalize_apostrophe(text), then normalize_apostrophe of what it returned
NormalizeApostrophe ==
  /\ call.fn = "normalize_apostrophe"
  /\ Len(returned) < 2
  /\ returned' = Append(returned, normalize_apostrophe(next_argument))
  /\ UNCHANGED <<globals, input, aggressive, pc, text, hyphen_log, single_log, call, raised, docx>>

\* normalize_diacritics(text), then normalize_diacritics of what it returned
NormalizeDiacritics ==
  /\ call.fn = "normalize_diacritics"
  /\ Len(returned) < 2
  /\ returned' = Append(returned, normalize_diacritics(next_argument))
  /\ UNCHANGED <<globals, input, aggressive, pc, text, hyphen_log, single_log, call, raised, docx>>

\* Largest length of a generated word given to _is_likely_proper_noun.
MaxWord == 5

\* The characters of a generated word: an uppercase letter, a lowercase
\* letter, the apostrophe, the hyphen and a variant glyph.
WordChars == {"A", "a", "'", "-", "grave"}

\* Words from the table and from English, postal romanizations of four and
\* of more characters, and words with a diacritic, in several
\* capitalizations.
NamedWords ==
  { <<"T", "u", "n", "g">>, <<"t", "u", "n", "g">>, <<"W", "e", "l", "l">>,
    <<"C", "h", "i", "a", "n", "g">>, <<"H", "e", "l", "l", "o">>,
    <<"S", "i", "a", "n">>, <<"S", "I", "A", "N">>, <<"s", "i", "a", "n">>,
    <<"P", "e", "k", "i", "n", "g">>, <<"T", "'", "a", "n", "g">>,
    <<"E-circumflex", "r", "h">>, <<"e-breve", "r", "h">>,
    <<"E-circumflex", "r", "h", "U+02BC", "a">> }

NounWords == NamedWords \cup UNION {[1..n -> WordChars] : n \in 0..MaxWord}

ProperNounCalls ==
  {[fn |-> "_is_likely_proper_noun", word_clean |-> w, is_sentence_start |-> b] :
     w \in NounWords, b \in BOOLEAN}

\* self._is_likely_proper_noun(word_clean, word_lower, is_sentence_start, wg_lookup)
\* For the empty word, word_clean[0] at line 1258 raises IndexError.
IsLikelyProperNoun ==
  /\ call.fn = "_is_likely_proper_noun"
  /\ returned = <<>>
  /\ raised = "none"
  /\ IF call.word_clean = <<>>
       THEN /\ raised' = "IndexError"
            /\ UNCHANGED returned
       ELSE /\ returned' =
                 <<_is_likely_proper_noun(call.word_clean, call.is_sentence_start)>>
            /\ UNCHANGED raised
  /\ UNCHANGED <<globals, input, aggressive, pc, text, hyphen_log, single_log, call, docx>>

\* Variant of BuildPdfLookup that deletes the entries it skips from
\* WG_TO_PINYIN.
BuildPdfLookup_pruning ==
  /\ call.fn = "_build_pdf_lookup"
  /\ returned = <<>>
  /\ returned' = <<_build_pdf_lookup(globals)>>
  /\ globals' =
       [globals EXCEPT !.WG_TO_PINYIN =
          [k \in DOMAIN globals.WG_TO_PINYIN \ pdf_skipped(globals) |->
             globals.WG_TO_PINYIN[k]]]
  /\ UNCHANGED <<input, aggressive, pc, text, hyphen_log, single_log, call, raised, docx>>

\* self._build_pdf_lookup()
BuildPdfLookup ==
  /\ call.fn = "_build_pdf_lookup"
  /\ returned = <<>>
  /\ returned' = <<_build_pdf_lookup(globals)>>
  /\ UNCHANGED <<globals, input, aggressive, pc, text, hyphen_log, single_log, call, raised, docx>>

\* self._compile_pattern(), as the constructor of a further converter calls
\* it: the alternation compiled from the keys of WG_TO_PINYIN is what the
\* new converter holds as self.pattern.
CompilePattern ==
  /\ call.fn = "_compile_pattern"
  /\ returned = <<>>
  /\ returned' = <<compile_alternatives(sorted_by_len_reverse(WG_KEY_LIST))>>
  /\ UNCHANGED <<globals, input, aggressive, pc, text, hyphen_log, single_log, call, raised, docx>>

\* The direct calls the model makes.
FunctionCalls == ApplyCaseCalls \cup NormalizeCalls \cup ProperNounCalls

FunctionInit == CallInit(FunctionCalls)

FunctionNext ==
  ApplyCase \/ NormalizeApostrophe \/ NormalizeDiacritics \/ IsLikelyProperNoun

\* One module-level function or method called directly, no conversion
\* running.
FunctionSpec == FunctionInit /\ [][FunctionNext]_vars

\* The texts converted while other methods of the engine are called.
EngineInputs ==
  { <<>>,
    <<"T", "s", "e", "-", "t", "u", "n", "g">>,
    <<"W", "e", "l", "l", "-", "W", "e", "l", "l">>,
    <<"a", "n", "-", "x", "'", "t", "o">>,
    <<"t", "u", "n", "g">>, <<"T", "o">>, <<"I">>,
    <<"c", "h", "acute", "i">> }
    \cup Sentences

\* The methods called beside the conversions.
EngineCalls ==
  { [fn |-> "_build_pdf_lookup"], [fn |-> "_compile_pattern"] }
    \cup {[fn |-> "_is_likely_proper_noun", word_clean |-> w, is_sentence_start |-> b] :
            w \in NamedWords, b \in BOOLEAN}

EngineInit ==
  /\ globals = ImportedGlobals
  /\ call \in EngineCalls
  /\ returned = <<>>
  /\ raised = "none"
  /\ docx = NoDocx
  /\ input \in EngineInputs
  /\ aggressive = [c \in Calls |-> c = 2]
  /\ pc = [c \in Calls |-> "start"]
  /\ text = [c \in Calls |-> input]
  /\ hyphen_log = [c \in Calls |-> <<>>]
  /\ single_log = [c \in Calls |-> <<>>]

EngineNext ==
  \/ \E c \in Calls : ReturnEmpty(c) \/ HyphenPass(c) \/ SinglePass(c)
  \/ IsLikelyProperNoun
  \/ BuildPdfLookup
  \/ CompilePattern

\* Two conversions and one other method of the engine, interleaved.
EngineSpec == EngineInit /\ [][EngineNext]_vars


\* Spelling s with glyph g written at every apostrophe.
with_glyph(s, g) == [i \in 1..Len(s) |-> IF s[i] = "'" THEN g ELSE s[i]]

\* The key ch'ien with each apostrophe glyph, written lowercase, capitalized
\* and all-uppercase.
GlyphInputs ==
  LET key == <<"c", "h", "'", "i", "e", "n">> IN
  UNION { { with_glyph(key, g), str_upper(with_glyph(key, g)),
            <<char_upper[key[1]]>> \o Tail(with_glyph(key, g)) } :
          g \in {"'"} \cup ApostropheVariants }

\* Spelling s with plain u written at every umlaut.
plain_u(s) == [i \in 1..Len(s) |-> IF s[i] = "u:" THEN "u" ELSE s[i]]

\* The table keys that contain an umlaut.
UmlautKeys == {k \in WG_KEYS : \E i \in 1..Len(k) : k[i] = "u:"}

\* The umlaut keys as the table has them and with plain u.
UmlautInputs == UmlautKeys \cup {plain_u(k) : k \in UmlautKeys}

\* Hyphen groups whose joined spelling reads as a key, or that start with a
\* one-letter key.
GroupInputs ==
  { <<"P", "'", "i", "-", "e", "n">>, <<"p", "'", "i", "-", "e", "n">>,
    <<"I", "-", "c", "h", "i", "n", "g">> }

\* Keys written with a circumflex, a breve or a macron on a vowel, and
\* their bare-vowel spellings.
DiacriticInputs ==
  { <<"C", "h", "e-circumflex", "n", "g">>, <<"C", "h", "e", "n", "g">>,
    <<"E-circumflex", "n", "-", "l", "a", "i">>, <<"E", "n", "-", "l", "a", "i">>,
    <<"c", "h", "e-macron", "n", "g">>, <<"e-breve", "n">> }

\* The texts converted to compare spellings of one key.
VariantInputs ==
  {<<>>} \cup GlyphInputs \cup UmlautInputs \cup GroupInputs \cup DiacriticInputs

VariantInit == InitWith(VariantInputs)

\* Two conversions of one spelling.
VariantSpec == VariantInit /\ [][Next]_vars

\* ------------------------------------------------------------------------
\* The document adapter: convert_docx and its raw-markup fallback
\* ------------------------------------------------------------------------

\* A document is the texts of its runs (paragraphs, tables, headers and
\* footers) and the texts inside its text boxes.
Documents ==
  { [runs |-> <<>>, boxes |-> <<>>],
    [runs |-> << <<"T", "s", "e", "-", "t", "u", "n", "g">> >>, boxes |-> <<>>],
    [runs |-> << <<"t", "u", "n", "g">>, <<>> >>, boxes |-> << <<"T", "o">> >>] }

\* The exceptions the file system, the zip reader and the structured parser
\* raise in the model: the name of the type and which of the substrings the
\* handler looks for the message has (a path may contain 'lxml').
Exceptions ==
  { [type |-> "XMLSyntaxError", markers |-> {}],
    [type |-> "XMLSyntaxError", markers |-> {"AttValue"}],
    [type |-> "PermissionError", markers |-> {}],
    [type |-> "PermissionError", markers |-> {"lxml"}],
    [type |-> "KeyError", markers |-> {}] }

\* The failures of reading or writing a file.
FileErrors == {e \in Exceptions : e.type = "PermissionError"}

\* if run.text: run.text = self.convert_text(run.text, aggressive=aggressive)
convert_texts(texts, mode) ==
  [i \in 1..Len(texts) |->
     IF texts[i] # <<>> THEN convert_text(texts[i], mode) ELSE texts[i]]

\* _process_textboxes_in_xml: the texts inside the text boxes converted.
_process_textboxes_in_xml(document, mode) ==
  [document EXCEPT !.boxes = convert_texts(document.boxes, mode)]

\* _process_all_text_in_xml: every text element converted.
_process_all_text_in_xml(document, mode) ==
  [runs |-> convert_texts(document.runs, mode),
   boxes |-> convert_texts(document.boxes, mode)]

\* The except clause is entered with exception e, raised by the given step.
caught(e, step) ==
  /\ docx' = [docx EXCEPT !.pc = "handler", !.error = <<e>>, !.step = step]
  /\ UNCHANGED raised

\* doc = Document(str(input_path))
LoadDocument ==
  /\ docx.pc = "start"
  /\ \/ /\ docx' = [docx EXCEPT !.pc = "loaded", !.doc = docx.input_file]
        /\ UNCHANGED raised
     \/ \E e \in Exceptions : caught(e, "parse")
  /\ UNCHANGED <<globals, input, aggressive, pc, text, hyphen_log, single_log, call, returned>>

\* The loops over paragraphs, tables, headers and footers.
ConvertRuns ==
  /\ docx.pc = "loaded"
  /\ docx' = [docx EXCEPT !.pc = "converted",
                          !.doc.runs = convert_texts(docx.doc.runs, docx.aggressive)]
  /\ UNCHANGED <<globals, input, aggressive, pc, text, hyphen_log, single_log, call, returned, raised>>

\* doc.save(str(output_path))
SaveDocument ==
  /\ docx.pc = "converted"
  /\ \/ /\ docx' = [docx EXCEPT !.pc = "saved", !.output_file = <<docx.doc>>]
        /\ UNCHANGED raised
     \/ \E e \in FileErrors : caught(e, "save")
  /\ UNCHANGED <<globals, input, aggressive, pc, text, hyphen_log, single_log, call, returned>>

\* self._process_textboxes_in_docx(output_path, aggressive), then
\* return str(output_path)
ProcessTextboxes ==
  /\ docx.pc = "saved"
  /\ \/ /\ docx' =
             [docx EXCEPT
                !.pc = "returned",
                !.output_file =
                  IF docx.output_file[1].boxes = <<>> THEN docx.output_file
                  ELSE <<_process_textboxes_in_xml(docx.output_file[1], docx.aggressive)>>]
        /\ UNCHANGED raised
     \/ \E e \in FileErrors \cup {x \in Exceptions : x.type = "KeyError"} :
          caught(e, "textboxes")
  /\ UNCHANGED <<globals, input, aggressive, pc, text, hyphen_log, single_log, call, returned>>

\* The test of the except clause: 'XMLSyntaxError' in type(e).__name__ or
\* 'AttValue' in error_msg or 'lxml' in error_msg
falls_back(e) ==
  e.type = "XMLSyntaxError" \/ "AttValue" \in e.markers \/ "lxml" \in e.markers

\* except Exception as e: fall back to the raw-markup pass or re-raise.
HandleException ==
  /\ docx.pc = "handler"
  /\ IF falls_back(docx.error[1])
       THEN /\ docx' = [docx EXCEPT !.pc = "fallback", !.fallbacks = @ + 1]
            /\ UNCHANGED raised
       ELSE /\ docx' = [docx EXCEPT !.pc = "raised"]
            /\ raised' = docx.error[1].type
  /\ UNCHANGED <<globals, input, aggressive, pc, text, hyphen_log, single_log, call, returned>>

\* return self._convert_docx_via_xml(input_path, output_path, aggressive):
\* it copies the input file to the output, converts every text of the
\* copy and rewrites it; an exception of the copy or of the zip reader
\* leaves the except clause.
ConvertDocxViaXml ==
  /\ docx.pc = "fallback"
  /\ \/ /\ docx' = [docx EXCEPT
                      !.pc = "returned",
                      !.output_file =
                        <<_process_all_text_in_xml(docx.input_file, docx.aggressive)>>]
        /\ UNCHANGED raised
     \/ \E e \in FileErrors :
          /\ docx' = [docx EXCEPT !.pc = "raised"]
          /\ raised' = e.type
     \/ \E e \in FileErrors :
          /\ docx' = [docx EXCEPT !.pc = "raised", !.output_file = <<docx.input_file>>]
          /\ raised' = e.type
  /\ UNCHANGED <<globals, input, aggressive, pc, text, hyphen_log, single_log, call, returned>>

\* One convert_docx call on a document, in either mode; no other call runs.
DocxInit ==
  /\ globals = ImportedGlobals
  /\ call = NoCall
  /\ returned = <<>>
  /\ raised = "none"
  /\ \E d \in Documents, mode \in BOOLEAN :
       docx = [pc |-> "start", aggressive |-> mode, input_file |-> d, doc |-> d,
               output_file |-> <<>>, error |-> <<>>, step |-> "none", fallbacks |-> 0]
  /\ input = <<>>
  /\ aggressive = [c \in Calls |-> c = 2]
  /\ pc = [c \in Calls |-> "start"]
  /\ text = [c \in Calls |-> input]
  /\ hyphen_log = [c \in Calls |-> <<>>]
  /\ single_log = [c \in Calls |-> <<>>]

DocxNext ==
  \/ LoadDocument
  \/ ConvertRuns
  \/ SaveDocument
  \/ ProcessTextboxes
  \/ HandleException
  \/ ConvertDocxViaXml

DocxSpec == DocxInit /\ [][DocxNext]_vars

\* ------------------------------------------------------------------------
\* Properties
\* ------------------------------------------------------------------------

\* The entries of a log, as a set.
Entries(log) == {log[k] : k \in 1..Len(log)}

\* C1: for every table key outside the any-case-excluded, lowercase-excluded
\* and context-sensitive sets, the conservative call on the text that is
\* exactly the lowercase key returns exactly the table's value for the key.
C1_TableLookup ==
  ( /\ pc[1] = "done"
    /\ input \in WG_KEYS
    /\ input \notin ENGLISH_EXCLUSIONS_ANY_CASE \cup ENGLISH_EXCLUSIONS_LOWERCASE
                      \cup CONTEXT_SENSITIVE )
  => text[1] = WG_TO_PINYIN[input]

\* The conservative call has converted the aspirated key ch'iang to qiang.
C1_Witness ==
  /\ pc[1] = "done"
  /\ input = <<"c", "h", "'", "i", "a", "n", "g">>
  /\ text[1] = <<"q", "i", "a", "n", "g">>

\* The any-case-excluded words, spelled out.
AnyCaseWords == { <<"t", "o">>, <<"n", "o">>, <<"s", "o">> }

ToBeOrNotToBe ==
  <<"t", "o", " ", "b", "e", " ", "o", "r", " ", "n", "o", "t", " ",
    "t", "o", " ", "b", "e">>

\* C2: in conservative mode a span the single-syllable pass matches whose
\* lowercase form is to, no or so is left unchanged whatever its
\* capitalization; the text "to be or not to be" is returned unchanged.
C2_AnyCaseExcluded ==
  pc[1] = "done" =>
    /\ \A e \in Entries(single_log[1]) :
         str_lower(e.original) \in AnyCaseWords => e.replacement = e.original
    /\ (\E w \in AnyCaseWords : str_lower(input) = w) => text[1] = input
    /\ input = ToBeOrNotToBe => text[1] = input

\* The conservative call matched the all-uppercase word TO and left it alone.
C2_Witness ==
  /\ pc[1] = "done"
  /\ input = <<"T", "O">>
  /\ Len(single_log[1]) = 1
  /\ single_log[1][1].original = <<"T", "O">>
  /\ text[1] = <<"T", "O">>

\* The words excluded only when written all-lowercase, spelled out.
LowercaseOnlyWords ==
  { <<"h", "u", "n", "g">>, <<"s", "u", "n", "g">>, <<"l", "u", "n", "g">>,
    <<"t", "a", "n", "g">>, <<"t", "a", "n">>, <<"p", "a", "n">>,
    <<"p", "e", "n">>, <<"p", "i", "n">>, <<"p", "i", "n", "g">>,
    <<"t", "i", "n", "g">> }

\* No character of s is an uppercase letter.
NoUppercase(s) == \A i \in 1..Len(s) : s[i] \notin UpperSet

\* C3: in conservative mode a matched span whose lowercase form is one of
\* hung, sung, lung, tang, tan, pan, pen, pin, ping, ting is left unchanged
\* if and only if it is written all-lowercase; with any uppercase letter it
\* becomes the case-transferred table value, and "Sung Dynasty" becomes
\* "Song Dynasty".
C3_LowercaseOnlyExcluded ==
  pc[1] = "done" =>
    /\ \A e \in Entries(single_log[1]) :
         str_lower(e.original) \in LowercaseOnlyWords =>
           /\ (e.replacement = e.original) <=> NoUppercase(e.original)
           /\ ~NoUppercase(e.original) =>
                /\ str_lower(e.replacement) = WG_TO_PINYIN[str_lower(e.original)]
                /\ e.replacement = apply_case(e.original, WG_TO_PINYIN[str_lower(e.original)])
    /\ input = <<"S", "u", "n", "g", " ", "D", "y", "n", "a", "s", "t", "y">>
         => text[1] = <<"S", "o", "n", "g", " ", "D", "y", "n", "a", "s", "t", "y">>

\* The conservative call has turned "Sung Dynasty" into "Song Dynasty".
C3_Witness ==
  /\ pc[1] = "done"
  /\ input = <<"S", "u", "n", "g", " ", "D", "y", "n", "a", "s", "t", "y">>
  /\ Len(single_log[1]) = 1
  /\ single_log[1][1].replacement = <<"S", "o", "n", "g">>
  /\ text[1] = <<"S", "o", "n", "g", " ", "D", "y", "n", "a", "s", "t", "y">>

\* The context-sensitive syllables, spelled out.
SingleLetterWords == { <<"a">>, <<"i">>, <<"o">> }

\* C4: a matched span that reads a, i or o is left unchanged by the
\* single-syllable pass of a conservative call in any capitalization; the
\* aggressive call converts it, and so does the hyphen pass of either call
\* when the span is a sub-part of a hyphen group.
C4_ContextSensitive ==
  /\ pc[1] = "done" =>
       \A e \in Entries(single_log[1]) :
         str_lower(e.original) \in SingleLetterWords => e.replacement = e.original
  /\ pc[2] = "done" =>
       \A e \in Entries(single_log[2]) :
         str_lower(e.original) \in SingleLetterWords =>
           str_lower(e.replacement) = WG_TO_PINYIN[str_lower(e.original)]
  /\ \A c \in Calls : \A e \in Entries(hyphen_log[c]) :
       (e.original[1] = "I" /\ e.original[2] = "-") =>
         (e.replacement[1] = "Y" /\ str_lower(e.replacement)[2] = "i")

\* Both calls are done on the standalone word I: the conservative call left
\* it alone, the aggressive call converted it.
C4_Witness ==
  /\ pc[1] = "done" /\ pc[2] = "done"
  /\ input = <<"I">>
  /\ Len(single_log[1]) = 1
  /\ text[1] = <<"I">>
  /\ str_lower(text[2]) = <<"y", "i">>

\* C5: every match a conservative call changes is changed by the aggressive
\* call on the same text too, at the same place and to the same replacement.
C5_AggressiveSuperset ==
  (pc[1] = "done" /\ pc[2] = "done") =>
    /\ \A e \in Entries(hyphen_log[1]) :
         e.replacement # e.original => e \in Entries(hyphen_log[2])
    /\ \A e \in Entries(single_log[1]) :
         e.replacement # e.original => e \in Entries(single_log[2])

\* Both calls are done on the capitalized word Sung, which the conservative
\* call converted.
C5_Witness ==
  /\ pc[1] = "done" /\ pc[2] = "done"
  /\ input = <<"S", "u", "n", "g">>
  /\ Len(single_log[1]) = 1
  /\ single_log[1][1].replacement = <<"S", "o", "n", "g">>

\* The sub-parts of a hyphen group.
PartsOf(sequence) == str_split(sequence, "-", <<>>)

\* The sub-part is a table key once lowercased and apostrophe-normalized.
IsKeyPart(part) == normalized_form(part) \in WG_KEYS

\* The table value of a sub-part that is a key.
PinyinOf(part) == WG_TO_PINYIN[normalized_form(part)]

\* The sub-part is a key whose Pinyin spelling differs from its own.
SpellingChanged(part) == IsKeyPart(part) /\ PinyinOf(part) # str_lower(part)

\* The join condition: (a) some spelling changed or (b) every part is a key.
JoinDue(sequence) ==
  LET parts == PartsOf(sequence) IN
  \/ \E i \in 1..Len(parts) : SpellingChanged(parts[i])
  \/ \A i \in 1..Len(parts) : IsKeyPart(parts[i])

\* The lowercase spelling of the joined group: table values for the keys,
\* the other parts as they are, no hyphens.
JoinedSpelling(sequence) ==
  LET parts == PartsOf(sequence) IN
  str_join([i \in 1..Len(parts) |->
              IF IsKeyPart(parts[i]) THEN PinyinOf(parts[i]) ELSE str_lower(parts[i])])

TseTung == <<"T", "s", "e", "-", "t", "u", "n", "g">>

\* C6: the hyphen pass replaces a hyphen group by the hyphen-free
\* concatenation of its converted sub-parts exactly when some sub-part's
\* spelling changed or every sub-part is a table key, and by the group
\* itself otherwise (so also when no sub-part is a key); "Tse-tung" is
\* converted to "Zedong".
C6_JoinDecision ==
  /\ \A c \in Calls : \A e \in Entries(hyphen_log[c]) :
       IF JoinDue(e.original)
         THEN /\ str_lower(e.replacement) = JoinedSpelling(e.original)
              /\ \A i \in 1..Len(e.replacement) : e.replacement[i] # "-"
         ELSE e.replacement = e.original
  /\ (pc[1] = "done" /\ input = TseTung)
       => text[1] = <<"Z", "e", "d", "o", "n", "g">>

\* The conservative call has converted "Tse-tung" to "Zedong".
C6_Witness ==
  /\ pc[1] = "done"
  /\ input = TseTung
  /\ Len(hyphen_log[1]) = 1
  /\ text[1] = <<"Z", "e", "d", "o", "n", "g">>

\* What the first sub-part of a joined group becomes: the case-transferred
\* table value for a key, the sub-part itself otherwise.
FirstPartReplacement(sequence) ==
  LET first == PartsOf(sequence)[1] IN
  IF IsKeyPart(first) THEN apply_case(first, PinyinOf(first)) ELSE first

\* C7: in a joined hyphen group the output starts with the first sub-part's
\* replacement in the first sub-part's case pattern, and everything after it
\* is lowercase whatever the case of the later sub-parts: "Tse-Tung" and
\* "TSE-TUNG" both end in "dong".
C7_CasePolicy ==
  /\ \A c \in Calls : \A e \in Entries(hyphen_log[c]) :
       JoinDue(e.original) =>
         LET first == FirstPartReplacement(e.original) IN
         /\ Len(e.replacement) >= Len(first)
         /\ SubSeq(e.replacement, 1, Len(first)) = first
         /\ NoUppercase(SubSeq(e.replacement, Len(first) + 1, Len(e.replacement)))
  /\ \A c \in Calls :
       /\ (pc[c] = "done" /\ input = <<"T", "s", "e", "-", "T", "u", "n", "g">>)
            => text[c] = <<"Z", "e", "d", "o", "n", "g">>
       /\ (pc[c] = "done" /\ input = <<"T", "S", "E", "-", "T", "U", "N", "G">>)
            => text[c] = <<"Z", "E", "d", "o", "n", "g">>

\* The conservative call has converted "TSE-TUNG" to "ZEdong".
C7_Witness ==
  /\ pc[1] = "done"
  /\ input = <<"T", "S", "E", "-", "T", "U", "N", "G">>
  /\ Len(hyphen_log[1]) = 1
  /\ text[1] = <<"Z", "E", "d", "o", "n", "g">>

\* The excluded and context-sensitive words whose Pinyin spelling differs.
FilteredWords == AnyCaseWords \cup LowercaseOnlyWords \cup { <<"i">>, <<"o">> }

ToSung == <<"t", "o", "-", "s", "u", "n", "g">>

\* C8: the hyphen pass converts a sub-part that is an excluded or
\* context-sensitive key like any other key, and it replaces the same groups
\* by the same text in the conservative and in the aggressive call:
\* "to-sung" becomes "duosong" in both.
C8_HyphenBypass ==
  /\ (pc[1] # "start" /\ pc[2] # "start") => hyphen_log[1] = hyphen_log[2]
  /\ \A c \in Calls : \A e \in Entries(hyphen_log[c]) :
       LET parts == PartsOf(e.original) IN
       (\E i \in 1..Len(parts) : str_lower(parts[i]) \in FilteredWords)
         => str_lower(e.replacement) = JoinedSpelling(e.original)
  /\ \A c \in Calls :
       (pc[c] = "done" /\ input = ToSung)
         => text[c] = <<"d", "u", "o", "s", "o", "n", "g">>

\* Both calls are done on "to-sung" and both returned "duosong".
C8_Witness ==
  /\ pc[1] = "done" /\ pc[2] = "done"
  /\ input = ToSung
  /\ Len(hyphen_log[1]) = 1
  /\ text[1] = <<"d", "u", "o", "s", "o", "n", "g">>
  /\ text[2] = text[1]

\* The alternative of key k matches the text at pos, boundaries aside.
KeyMatchesAt(k, t, pos) ==
  /\ pos + Len(k) - 1 <= Len(t)
  /\ \A i \in 1..Len(k) : char_lower[t[pos + i - 1]] \in syllable_pattern(k)[i]

\* No key of the alternation is followed by a longer one.
LongestKeyFirst ==
  \A i \in 1..(Len(all_syllables) - 1) :
    Len(all_syllables[i]) >= Len(all_syllables[i + 1])

\* C9: the alternation lists every key before every shorter key, and the
\* span the single-syllable pass matches at an offset is never shorter than
\* a table key that matches the text at that offset.
C9_LongestMatch ==
  /\ LongestKeyFirst
  /\ \A c \in Calls :
       (pc[c] = "done" /\ hyphen_log[c] = <<>>) =>
         \A e \in Entries(single_log[c]) : \A k \in WG_KEYS :
           KeyMatchesAt(k, input, e.start) => Len(k) <= Len(e.original)

\* The conservative call matched chia as a whole, where the shorter key chi
\* matches at the same offset.
C9_Witness ==
  /\ pc[1] = "done"
  /\ input = <<"c", "h", "i", "a">>
  /\ KeyMatchesAt(<<"c", "h", "i">>, input, 1)
  /\ Len(single_log[1]) = 1
  /\ single_log[1][1].original = <<"c", "h", "i", "a">>
  /\ text[1] = <<"j", "i", "a">>

\* The letters of the table keys and of the hyphen pattern.
Letters == AsciiLetters \cup {"u:", "U:"}

\* C10: every span the single-syllable pass matches has a non-letter or the
\* edge of the text on both sides, u-umlaut and U-umlaut counting as letters.
C10_LetterBounded ==
  \A c \in Calls :
    (pc[c] = "done" /\ hyphen_log[c] = <<>>) =>
      \A e \in Entries(single_log[c]) :
        /\ e.start = 1 \/ input[e.start - 1] \notin Letters
        /\ \/ e.start + Len(e.original) > Len(input)
           \/ input[e.start + Len(e.original)] \notin Letters

\* ------------------------------------------------------------------------
\* Case transfer (apply_case)
\* ------------------------------------------------------------------------

\* The characters of a source that apply_case does not skip.
source_letters(source) == SelectSeq(source, LAMBDA ch : ch \notin {"'", "-"})

\* ch in the case of the source character by.
cased_as(ch, by) == IF char_isupper(by) THEN char_upper[ch] ELSE char_lower[ch]

\* The source is written with letters, canonical apostrophes and hyphens.
canonical_source(source) ==
  \A i \in 1..Len(source) : source[i] \notin ApostropheVariants

all_upper(s) == s # <<>> /\ \A i \in 1..Len(s) : char_isupper(s[i])

all_lower(s) == s # <<>> /\ \A i \in 1..Len(s) : ~char_isupper(s[i])

capitalized(s) ==
  /\ s # <<>>
  /\ char_isupper(s[1])
  /\ \A i \in 2..Len(s) : ~char_isupper(s[i])

\* str.capitalize()
str_capitalize(s) ==
  IF s = <<>> THEN s ELSE <<char_upper[s[1]]>> \o str_lower(Tail(s))

\* An apply_case call has returned.
case_returned == call.fn = "apply_case" /\ returned # <<>>

\* C11: apply_case returns the target's characters, each aligned one in the
\* case of the source letter aligned with it, the apostrophes and hyphens of
\* the source being skipped without consuming a target character; so when
\* the source's letters cover the target, an all-uppercase source gives the
\* uppercase target, an all-lowercase source the lowercase target and a
\* capitalized source the capitalized target; and ("CH'IEN", "qian") gives
\* "QIAN", ("Chien", "jian") "Jian", ("chien", "jian") "jian".
C11_CaseAlignment ==
  (case_returned /\ canonical_source(call.source) /\ call.source # <<>>) =>
    LET letters == source_letters(call.source)
        target == call.target
        result == returned[1]
    IN /\ Len(result) = Len(target)
       /\ \A j \in 1..Len(target) :
            j <= Len(letters) => result[j] = cased_as(target[j], letters[j])
       /\ Len(letters) >= Len(target) =>
            /\ all_upper(letters) => result = str_upper(target)
            /\ all_lower(letters) => result = str_lower(target)
            /\ capitalized(letters) => result = str_capitalize(target)
       /\ call.source = <<"C", "H", "'", "I", "E", "N">> /\ target = <<"q", "i", "a", "n">>
            => result = <<"Q", "I", "A", "N">>
       /\ call.source = <<"C", "h", "i", "e", "n">> /\ target = <<"j", "i", "a", "n">>
            => result = <<"J", "i", "a", "n">>
       /\ call.source = <<"c", "h", "i", "e", "n">> /\ target = <<"j", "i", "a", "n">>
            => result = <<"j", "i", "a", "n">>

\* apply_case("CH'IEN", "qian") has returned "QIAN": an apostrophe was
\* skipped between uppercase letters.
C11_Witness ==
  /\ case_returned
  /\ call.source = <<"C", "H", "'", "I", "E", "N">>
  /\ call.target = <<"q", "i", "a", "n">>
  /\ returned = << <<"Q", "I", "A", "N">> >>

\* C12: when the source has fewer letters than the target, every remaining
\* target character is given the case of the last source character that is
\* not a skipped apostrophe or hyphen.
C12_RemainderCase ==
  (case_returned /\ canonical_source(call.source)) =>
    LET letters == source_letters(call.source)
        target == call.target
        result == returned[1]
    IN (letters # <<>> /\ Len(letters) < Len(target)) =>
         \A j \in (Len(letters) + 1)..Len(target) :
           result[j] = cased_as(target[j], letters[Len(letters)])

\* ------------------------------------------------------------------------
\* The normalizers
\* ------------------------------------------------------------------------

\* A normalizer has been applied to its own result.
normalized_twice ==
  /\ call.fn \in {"normalize_apostrophe", "normalize_diacritics"}
  /\ Len(returned) = 2

\* C13: normalize_apostrophe and normalize_diacritics are idempotent:
\* applied to its own result, each returns that result.
C13_Idempotent == normalized_twice => returned[2] = returned[1]

\* normalize_apostrophe changed a text with two variant glyphs and, applied
\* again, returned the same text.
C13_Witness ==
  /\ normalized_twice
  /\ call.fn = "normalize_apostrophe"
  /\ call.text = <<"grave", "a", "grave">>
  /\ returned = << <<"'", "a", "'">>, <<"'", "a", "'">> >>

\* The diacritics side of C13: normalize_diacritics changed a text and,
\* applied again, returned the same text.
C13_DiacriticsReached ==
  /\ normalized_twice
  /\ call.fn = "normalize_diacritics"
  /\ call.text = <<"E-circumflex", "u-macron">>
  /\ returned = << <<"E", "u">>, <<"E", "u">> >>

\* The apostrophe-like glyphs normalize_apostrophe is to replace.
ApostropheLike == {"'"} \cup ApostropheVariants

\* C14: normalize_apostrophe returns a text of the length of its argument
\* in which every character that is not an apostrophe-like glyph stands
\* unchanged at its position, and every apostrophe-like glyph has become
\* the canonical apostrophe.
C14_ApostropheFrame ==
  (call.fn = "normalize_apostrophe" /\ returned # <<>>) =>
    /\ Len(returned[1]) = Len(call.text)
    /\ \A i \in 1..Len(call.text) :
         returned[1][i] = IF call.text[i] \in ApostropheLike THEN "'" ELSE call.text[i]

\* ------------------------------------------------------------------------
\* convert_text as a whole
\* ------------------------------------------------------------------------

\* The spans of a text that no ASCII letter adjoins: every standalone word
\* and every sub-part of a hyphen group is one of them.
BoundedSpans(t) ==
  { s \in (1..Len(t)) \X (1..Len(t)) :
      /\ s[1] <= s[2]
      /\ s[1] = 1 \/ t[s[1] - 1] \notin AsciiLetters
      /\ s[2] = Len(t) \/ t[s[2] + 1] \notin AsciiLetters }

\* Some span of the text has a normalized form that is a table key.
HasKeySpan(t) ==
  \E s \in BoundedSpans(t) : normalized_form(SubSeq(t, s[1], s[2])) \in WG_KEYS

\* C15: convert_text returns a string for every text in both modes, and it
\* returns the text it was given when the text is empty or has no span
\* (standalone or hyphen sub-part) whose normalized form is a table key.
C15_TotalAndUnchanged ==
  \A c \in Calls :
    /\ text[c] \in Seq(Chars)
    /\ pc[c] = "done" =>
         ((input = <<>> \/ ~HasKeySpan(input)) => text[c] = input)

\* Both calls have returned "Well-Well", a hyphen group without a key, as
\* it was given.
C15_Witness ==
  /\ input = <<"W", "e", "l", "l", "-", "W", "e", "l", "l">>
  /\ ~HasKeySpan(input)
  /\ \A c \in Calls : pc[c] = "done" /\ text[c] = input

\* ------------------------------------------------------------------------
\* The merged table
\* ------------------------------------------------------------------------

\* The four sources in the order they are merged.
SourceTables ==
  <<WG_TO_PINYIN_CORE, UMLAUT_VARIANTS, POSTAL_ROMANIZATIONS, II_TO_UMLAUT_MAPPINGS>>

\* The keys of the n-th source.
source_keys(n) == {SourceTables[n][i][1] : i \in 1..Len(SourceTables[n])}

\* The value the first source that has the key k gives it.
first_writer(k) ==
  LET n == CHOOSE n \in 1..4 :
             k \in source_keys(n) /\ \A m \in 1..(n - 1) : k \notin source_keys(m)
      items == SourceTables[n]
  IN items[CHOOSE i \in 1..Len(items) : items[i][1] = k][2]

\* The mapping with the union of the sources' keys, first writer winning.
FirstWriterTable == [k \in UNION {source_keys(n) : n \in 1..4} |-> first_writer(k)]

\* C16: the merged table has exactly the keys of the four sources, each key
\* with the value of the first source, in merge order, that has it ('chu'
\* is 'zhu', not the umlaut variant's 'ju'), and no key twice.
C16_FirstWriterWins ==
  /\ globals.WG_TO_PINYIN = FirstWriterTable
  /\ globals.WG_TO_PINYIN[<<"c", "h", "u">>] = <<"z", "h", "u">>
  /\ Cardinality(DOMAIN globals.WG_TO_PINYIN) = Len(WG_ITEMS)

\* 'chu', a key of both the core table and the umlaut variants, has been
\* converted with the core table's value by both calls.
C16_Witness ==
  /\ input = <<"c", "h", "u">>
  /\ <<"c", "h", "u">> \in source_keys(1) \cap source_keys(2)
  /\ \A c \in Calls : pc[c] = "done" /\ text[c] = <<"z", "h", "u">>

\* ------------------------------------------------------------------------
\* The proper-noun test
\* ------------------------------------------------------------------------

\* A call of _is_likely_proper_noun has returned.
noun_returned == call.fn = "_is_likely_proper_noun" /\ returned # <<>>

\* The word is written with an apostrophe, a variant glyph or a hyphen.
has_mark(word) == \E i \in 1..Len(word) : word[i] \in ApostropheLike \cup {"-"}

\* The word without its diacritics, in lowercase, is a postal romanization.
is_postal(word) == str_lower(normalize_diacritics(word)) \in POSTAL_KEYS

\* C19: for a capitalized word at a sentence start that is no postal
\* romanization and has no apostrophe or hyphen, _is_likely_proper_noun
\* returns False when the word has four or fewer characters and True when
\* it has more than four.
C19_SentenceStart ==
  ( /\ noun_returned
    /\ call.is_sentence_start
    /\ accented_isupper(call.word_clean[1])
    /\ ~has_mark(call.word_clean)
    /\ ~is_postal(call.word_clean) )
  => returned[1] = (Len(call.word_clean) > 4)

\* The test has returned False for 'Tung' at a sentence start.
C19_Witness ==
  /\ noun_returned
  /\ call.word_clean = <<"T", "u", "n", "g">>
  /\ call.is_sentence_start
  /\ returned = <<FALSE>>

\* The other half of C19: the test has returned True for 'Chiang' at a
\* sentence start.
C19_LongWordReached ==
  /\ noun_returned
  /\ call.word_clean = <<"C", "h", "i", "a", "n", "g">>
  /\ call.is_sentence_start
  /\ returned = <<TRUE>>

\* C20 as stated: for every word that has an apostrophe or a hyphen,
\* _is_likely_proper_noun returns True, at a sentence start or not.
C20_MarkedAlwaysEligible ==
  (noun_returned /\ has_mark(call.word_clean)) => returned[1] = TRUE

\* C20, amended: for every word whose first character is uppercase and that
\* has an apostrophe or a hyphen, _is_likely_proper_noun returns True, at a
\* sentence start or not; a word whose first character is not uppercase is
\* never eligible.
C20_CapitalizedMarkedEligible ==
  noun_returned =>
    /\ (accented_isupper(call.word_clean[1]) /\ has_mark(call.word_clean))
         => returned[1] = TRUE
    /\ ~accented_isupper(call.word_clean[1]) => returned[1] = FALSE

\* The test has returned True for the four-character word "A'aa" at a
\* sentence start.
C20_Witness ==
  /\ noun_returned
  /\ call.word_clean = <<"A", "'", "a", "a">>
  /\ call.is_sentence_start
  /\ returned = <<TRUE>>

\* ------------------------------------------------------------------------
\* Shared state
\* ------------------------------------------------------------------------

\* C17: whatever the engine has done (conversions with their hyphen and
\* single-span steps, the proper-noun test, pattern compilation, the PDF
\* lookup), the merged table and the exclusion and context sets are what
\* they were when the module had been imported.
C17_GlobalsFrozen == globals = ImportedGlobals

\* Both conversions of "Tse-tung" have returned "Zedong" and the PDF lookup
\* has been built from the table; the table and the sets are as imported.
C17_Witness ==
  /\ input = <<"T", "s", "e", "-", "t", "u", "n", "g">>
  /\ \A c \in Calls : pc[c] = "done" /\ text[c] = <<"Z", "e", "d", "o", "n", "g">>
  /\ call.fn = "_build_pdf_lookup"
  /\ returned # <<>>
  /\ returned[1][<<"t", "u", "n", "g">>] = <<"d", "o", "n", "g">>
  /\ globals = ImportedGlobals

\* What call c returns when it runs alone: both passes in sequence.
alone(c) == convert_text(input, aggressive[c])

\* C18: under every interleaving of the passes of the two calls, a call that
\* has returned has returned what it returns when run alone, and a call
\* between its passes holds what its hyphen pass alone gives.
C18_Independent ==
  \A c \in Calls :
    /\ pc[c] = "done" => text[c] = alone(c)
    /\ pc[c] = "hyphen_done" => text[c] = hyphen_pass(input, aggressive[c]).text
    /\ pc[c] = "start" => text[c] = input

\* The conservative call has returned "an-x'to" unchanged while the
\* aggressive call, given the same text, is still between its passes.
C18_Witness ==
  /\ input = <<"a", "n", "-", "x", "'", "t", "o">>
  /\ pc[1] = "done" /\ text[1] = input
  /\ pc[2] = "hyphen_done"

\* C21: _is_likely_proper_noun raises no error and returns a boolean for
\* every word, the empty one included, and both values of is_sentence_start.
C21_NoFailure ==
  call.fn = "_is_likely_proper_noun" =>
    /\ raised = "none"
    /\ returned # <<>> => returned[1] \in BOOLEAN

\* ------------------------------------------------------------------------
\* Hyphen groups, continued
\* ------------------------------------------------------------------------

\* The number of characters the i-th sub-part contributes to the joined
\* group: those of its table value for a key, its own otherwise.
piece_len(parts, i) ==
  IF IsKeyPart(parts[i]) THEN Len(PinyinOf(parts[i])) ELSE Len(parts[i])

\* Where the i-th sub-part's contribution starts in the joined group.
RECURSIVE piece_start(_, _)
piece_start(parts, i) ==
  IF i = 1 THEN 1 ELSE piece_start(parts, i - 1) + piece_len(parts, i - 1)

\* What the joined group holds for its i-th sub-part.
piece(replacement, parts, i) ==
  SubSeq(replacement, piece_start(parts, i),
         piece_start(parts, i) + piece_len(parts, i) - 1)

\* C22 as stated: in a joined hyphen group a sub-part that is not a table
\* key appears with exactly its characters and its case, in every position.
C22_NonKeyVerbatim ==
  \A c \in Calls : \A e \in Entries(hyphen_log[c]) :
    JoinDue(e.original) =>
      LET parts == PartsOf(e.original) IN
      \A i \in 1..Len(parts) :
        ~IsKeyPart(parts[i]) => piece(e.replacement, parts, i) = parts[i]

\* C22, amended: in a joined hyphen group a sub-part that is not a table
\* key keeps its characters; it appears as written when it is the first
\* sub-part and in lowercase in every later position.
C22_NonKeyKept ==
  \A c \in Calls : \A e \in Entries(hyphen_log[c]) :
    JoinDue(e.original) =>
      LET parts == PartsOf(e.original) IN
      \A i \in 1..Len(parts) :
        ~IsKeyPart(parts[i]) =>
          piece(e.replacement, parts, i) =
            IF i = 1 THEN parts[i] ELSE str_lower(parts[i])

\* The hyphen pass of the conservative call has joined "Tse-Well" to
\* "Zewell": the later sub-part, not a key, has lost its capital.
C22_Witness ==
  /\ input = <<"T", "s", "e", "-", "W", "e", "l", "l">>
  /\ pc[1] # "start"
  /\ hyphen_log[1][1].replacement = <<"Z", "e", "w", "e", "l", "l">>


\* The place in the text the hyphen pass returns where the replacement of
\* entry k of its log starts.
RECURSIVE joined_start(_, _)
joined_start(log, k) ==
  IF k = 1 THEN log[1].start
  ELSE joined_start(log, k - 1) + Len(log[k - 1].replacement)
         + (log[k].start - (log[k - 1].start + Len(log[k - 1].original)))

\* Entry e of the single-syllable log lies inside the replacement of entry k
\* of the hyphen log.
inside_joined(e, log, k) ==
  /\ joined_start(log, k) <= e.start
  /\ e.start + Len(e.original) <= joined_start(log, k) + Len(log[k].replacement)

\* C23: within one call the single-syllable pass changes nothing inside the
\* text the hyphen pass produced by joining a group, so a text that is one
\* joined group is returned as the hyphen pass wrote it ("P'i-en" as 'Pien').
C23_ConvertedOnce ==
  \A c \in Calls :
    pc[c] = "done" =>
      /\ \A k \in 1..Len(hyphen_log[c]) :
           hyphen_log[c][k].replacement # hyphen_log[c][k].original =>
             \A e \in Entries(single_log[c]) :
               inside_joined(e, hyphen_log[c], k) => e.replacement = e.original
      /\ str_lower(input) = <<"p", "'", "i", "-", "e", "n">> =>
           str_lower(text[c]) = <<"p", "i", "e", "n">>

\* The spelling of s with the canonical apostrophe for every variant glyph.
canonical_spelling(s) ==
  [i \in 1..Len(s) |-> IF s[i] \in ApostropheVariants THEN "'" ELSE s[i]]

\* s is written lowercase, capitalized or all-uppercase.
plain_casing(s) == s \in {str_lower(s), str_upper(s), str_capitalize(s)}

\* The text is a table key that has an apostrophe, written with some glyph
\* of the matcher's class, in one of the three capitalizations.
glyph_key_input ==
  /\ str_lower(canonical_spelling(input)) \in WG_KEYS
  /\ \E i \in 1..Len(input) : input[i] \in ApostropheLike
  /\ plain_casing(input)

\* C24: a call on a table key with an apostrophe, written with any glyph of
\* the matcher's class and lowercase, capitalized or all-uppercase, returns
\* what the call on the spelling with the canonical apostrophe returns.
C24_GlyphInvariant ==
  \A c \in Calls :
    (pc[c] = "done" /\ glyph_key_input) =>
      text[c] = convert_text(canonical_spelling(input), aggressive[c])

\* The single-syllable pattern matched the whole text in call c.
matched_whole(c) == \E e \in Entries(single_log[c]) : e.original = input

\* C25: for every table key that has an umlaut, the keys with an apostrophe
\* included, the compiled pattern matches the spelling with plain u at the
\* umlaut's place as well as the spelling with the umlaut.
C25_PlainUMatched ==
  \A c \in Calls :
    pc[c] = "done" =>
      \A k \in UmlautKeys : input \in {k, plain_u(k)} => matched_whole(c)

\* The text has a vowel with a circumflex, a breve or a macron, and each of
\* its hyphen-separated parts is a table key once the marks are stripped.
marked_key_input ==
  /\ \E i \in 1..Len(input) : input[i] \in AccentedChars
  /\ LET parts == PartsOf(normalize_diacritics(input)) IN
       \A i \in 1..Len(parts) : IsKeyPart(parts[i])

\* C26: a call on a text that becomes a table key (or a group of keys) once
\* the circumflex, breve and macron marks are stripped from its vowels
\* returns what the call on the bare-vowel spelling returns; Cheng with
\* e-circumflex gives Zheng, En-lai with E-circumflex gives Enlai.
C26_DiacriticsStripped ==
  \A c \in Calls :
    (pc[c] = "done" /\ marked_key_input) =>
      /\ text[c] = convert_text(normalize_diacritics(input), aggressive[c])
      /\ input = <<"C", "h", "e-circumflex", "n", "g">> =>
           text[c] = <<"Z", "h", "e", "n", "g">>
      /\ input = <<"E-circumflex", "n", "-", "l", "a", "i">> =>
           text[c] = <<"E", "n", "l", "a", "i">>

\* The exception the except clause of convert_docx caught is the structured
\* parse's failure on a document that is too large for it.
too_large_for_parse ==
  docx.error # <<>> /\ docx.error[1].type = "XMLSyntaxError" /\ docx.step = "parse"

\* C27: convert_docx runs the raw-markup pass at most once and only after
\* the structured parse failed on a document too large for it; after any
\* other exception, a file error whatever its message included, it runs no
\* fallback and the exception leaves the call.
C27_OnlyTooLargeRecovered ==
  docx.pc # "none" =>
    /\ docx.fallbacks <= 1
    /\ docx.fallbacks = 1 => too_large_for_parse
    /\ (docx.error # <<>> /\ ~too_large_for_parse /\ docx.pc # "handler") =>
         (docx.pc = "raised" /\ raised = docx.error[1].type)

\* C28: where the first sub-part of a joined group, or a standalone span the
\* single-syllable pass converts, is written with only its initial letter
\* uppercase, what replaces it is the table value with exactly its first
\* letter uppercase, also for a one-letter source with a longer value (I
\* in I-ching gives Yi).
C28_InitialCapital ==
  \A c \in Calls :
    /\ \A e \in Entries(hyphen_log[c]) :
         LET parts == PartsOf(e.original) IN
         (e.replacement # e.original /\ IsKeyPart(parts[1]) /\ capitalized(parts[1])) =>
           piece(e.replacement, parts, 1) = str_capitalize(PinyinOf(parts[1]))
    /\ \A e \in Entries(single_log[c]) :
         (e.replacement # e.original /\ capitalized(e.original)) =>
           e.replacement = str_capitalize(PinyinOf(e.original))

\* C29: converting the text a call returned once more, in the same mode,
\* returns it unchanged.
C29_ConvertIdempotent ==
  \A c \in Calls :
    pc[c] = "done" => convert_text(text[c], aggressive[c]) = text[c]

\* C30: for a non-empty source and a non-empty target apply_case changes
\* letter case only: what it returns has the length of the target and is
\* the target once both are lowercased, whether the source is longer or
\* shorter than the target.
C30_OnlyCaseChanges ==
  (case_returned /\ call.source # <<>> /\ call.target # <<>>) =>
    /\ Len(returned[1]) = Len(call.target)
    /\ str_lower(returned[1]) = str_lower(call.target)

\* apply_case has returned QIAN for the one-letter source H and the target
\* qian: the source is shorter than the target.
C30_Witness ==
  /\ case_returned
  /\ call.source = <<"H">>
  /\ call.target = <<"q", "i", "a", "n">>
  /\ returned[1] = <<"Q", "I", "A", "N">>

\* apply_case has returned yI for the source cH'c and the target yi: the
\* source is longer than the target.
C30_LongSourceReached ==
  /\ case_returned
  /\ call.source = <<"c", "H", "'", "c">>
  /\ call.target = <<"y", "i">>
  /\ returned[1] = <<"y", "I">>
====
